---- MODULE Spec2Model ----
(***************************************************************************)
(* Comparison-trace maps of libafl_targets (cmps/mod.rs): the native       *)
(* CmpLogMap and the AFL++-compatible AflppCmpLogMap.                      *)
(*                                                                         *)
(* Memory is modelled at byte granularity, because the payload of a site   *)
(* is a union that is written in one view and may be read in the other.    *)
(* A multi-byte integer is the sequence of its base-256 digits, least      *)
(* significant first (the layout of the little-endian targets the map is   *)
(* shared on); `x as u8/u16/u32` keeps the first 1/2/4 digits, which is    *)
(* x modulo 2^8 / 2^16 / 2^32.                                             *)
(***************************************************************************)
EXTENDS Integers, Sequences, FiniteSets, TLC

VARIABLES fmt, headers, vals, last, nwrites,
          phase, written,
          serialized, copy,
          fnops, operands,
          GLOBAL_DATA, trace

\* The map, its producer's budget and the most recent call.
mapVars == <<fmt, headers, vals, last, nwrites>>

\* The harness protocol around one map: the phase of the current execution
\* and, per site, the payload offsets stored during it.
runVars == <<phase, written>>

\* A serialized map and the map read back from it.
serdeVars == <<serialized, copy>>

\* A routine record and an operand record held by value, outside any map.
fnVars == <<fnops, operands>>

\* The exported concolic runtime and the calls of the current operation.
rtVars == <<GLOBAL_DATA, trace>>

auxVars == <<runVars, serdeVars, fnVars, rtVars>>

vars == <<mapVars, auxVars>>

(***************************************************************************)
(* Constants of the crate.                                                 *)
(***************************************************************************)
CMPLOG_MAP_W == 65536
CMPLOG_MAP_H == 32
CMPLOG_RTN_LEN == 32
CMPLOG_KIND_INS == 0
CMPLOG_KIND_RTN == 1

\* size_of::<T>() of the four record types (repr(C) / repr(C, packed)).
SizeOf_CmpLogInstruction == 24
SizeOf_CmpLogRoutine == 64
SizeOf_AflppCmpLogOperands == 72
SizeOf_AflppCmpLogFnOperands == 72

CMPLOG_MAP_RTN_H ==
    (CMPLOG_MAP_H * SizeOf_CmpLogInstruction) \div SizeOf_CmpLogRoutine

CMPLOG_MAP_RTN_EXTENDED_H ==
    (CMPLOG_MAP_H * SizeOf_AflppCmpLogOperands) \div SizeOf_AflppCmpLogFnOperands

(***************************************************************************)
(* Bounds of the model.                                                    *)
(***************************************************************************)
\* Number of producer writes explored in one behaviour.
MaxWrites == 2

\* The sites that are exercised: the first and the last of the map.
Sites == {0, CMPLOG_MAP_W - 1}

\* Slots the producer writes and slots the consumer asks for (the latter
\* include the first index past each payload array).
WriteSlots == {0, 1}
ReadSlots == {0, 1, CMPLOG_MAP_RTN_H, CMPLOG_MAP_H}

(***************************************************************************)
(* Bytes and zero-initialised memory.  A region is kept as the function    *)
(* from the offsets of its non-zero bytes to those bytes.                  *)
(***************************************************************************)
Byte == 0..255

ZeroMem == [o \in {} |-> 0]

Rd(m, off) == IF off \in DOMAIN m THEN m[off] ELSE 0

RdBytes(m, base, n) == [i \in 1..n |-> Rd(m, base + i - 1)]

WrBytes(m, base, bytes) ==
    LET touched == base..(base + Len(bytes) - 1)
        at(o) == IF o \in touched THEN bytes[o - base + 1] ELSE m[o]
        nz == {o \in (DOMAIN m) \cup touched : at(o) # 0}
    IN  [o \in nz |-> at(o)]

Pad(s, n) == [i \in 1..n |-> IF i <= Len(s) THEN s[i] ELSE 0]

\* x as u8 / u16 / u32 on a little-endian digit sequence.
Trunc(x, n) == SubSeq(x, 1, n)

(***************************************************************************)
(* Headers.                                                                *)
(***************************************************************************)
\* CmpLogHeader { hits: u16, shape: u8, kind: u8 }
CmpLogHeader(hits, shape, kind) == [hits |-> hits, shape |-> shape, kind |-> kind]

\* AflppCmpLogHeader: a 16-bit packed bit-field, hits in bits 0..5, shape in
\* bits 6..10, type in bit 11, attribute in bits 12..15.
AflppCmpLogHeader_new_with_raw_value(raw) == raw

AflppCmpLogHeader_hits(h) == h % 64

AflppCmpLogHeader_shape(h) == (h \div 64) % 32

AflppCmpLogHeader_type_(h) == (h \div 2048) % 2

AflppCmpLogHeader_pack(hits, shape, type, attribute) ==
    hits + 64 * shape + 2048 * type + 4096 * attribute

(***************************************************************************)
(* Value records: the two views of a site's payload region.                *)
(***************************************************************************)
\* CmpLogInstruction(u64, u64, u8) at operands[idx][e]
CmpLogInstruction_at(m, e) ==
    LET base == e * SizeOf_CmpLogInstruction
    IN  [f0 |-> RdBytes(m, base, 8),
         f1 |-> RdBytes(m, base + 8, 8),
         f2 |-> Rd(m, base + 16)]

\* CmpLogRoutine([u8; 32], [u8; 32]) at routines[idx][e]
CmpLogRoutine_at(m, e) ==
    LET base == e * SizeOf_CmpLogRoutine
    IN  [f0 |-> RdBytes(m, base, CMPLOG_RTN_LEN),
         f1 |-> RdBytes(m, base + CMPLOG_RTN_LEN, CMPLOG_RTN_LEN)]

\* AflppCmpLogOperands at operands[idx][e]
AflppCmpLogOperands_at(m, e) ==
    LET base == e * SizeOf_AflppCmpLogOperands
    IN  [v0       |-> RdBytes(m, base, 8),
         v0_128   |-> RdBytes(m, base + 8, 8),
         v0_256_0 |-> RdBytes(m, base + 16, 8),
         v0_256_1 |-> RdBytes(m, base + 24, 8),
         v1       |-> RdBytes(m, base + 32, 8),
         v1_128   |-> RdBytes(m, base + 40, 8),
         v1_256_0 |-> RdBytes(m, base + 48, 8),
         v1_256_1 |-> RdBytes(m, base + 56, 8),
         unused   |-> RdBytes(m, base + 64, 8)]

\* AflppCmpLogFnOperands at fn_operands[idx][e]
AflppCmpLogFnOperands_at(m, e) ==
    LET base == e * SizeOf_AflppCmpLogFnOperands
    IN  [v0     |-> RdBytes(m, base, 32),
         v1     |-> RdBytes(m, base + 32, 32),
         v0_len |-> Rd(m, base + 64),
         v1_len |-> Rd(m, base + 65),
         unused |-> RdBytes(m, base + 66, 6)]

(***************************************************************************)
(* Results of the consumer interface.                                      *)
(***************************************************************************)
None == [tag |-> "None"]

Panic == [tag |-> "panic"]

Ok == [tag |-> "Ok"]

Usize(n) == [tag |-> "usize", n |-> n]

\* CmpValues::U8 / U16 / U32 / U64((v0, v1, v0_is_const))
CmpValuesInt(tag, v0, v1, flag) == [tag |-> tag, v0 |-> v0, v1 |-> v1, eq |-> flag]

\* CmplogBytes { buf, len }
CmplogBytes_from_buf_and_len(buf, len) == [buf |-> buf, len |-> len]

\* CmpValues::Bytes((a, b))
CmpValuesBytes(a, b) == [tag |-> "Bytes", b0 |-> a, b1 |-> b]

(***************************************************************************)
(* impl CmpMap for CmpLogMap                                               *)
(***************************************************************************)
CmpLogMap_len == CMPLOG_MAP_W

\* Mutant: the hit counter is clamped to the instruction height on read.
CmpLogMap_executions_for_M(hs, idx) ==
    IF hs[idx].hits < CMPLOG_MAP_H THEN hs[idx].hits ELSE CMPLOG_MAP_H

CmpLogMap_executions_for(hs, idx) == hs[idx].hits

\* Mutant: the routine clamp is one past the routines array.
CmpLogMap_usable_executions_for_M2(hs, idx) ==
    IF hs[idx].kind = CMPLOG_KIND_INS
    THEN IF hs[idx].hits < CMPLOG_MAP_H THEN hs[idx].hits ELSE CMPLOG_MAP_H
    ELSE IF hs[idx].hits <= CMPLOG_MAP_RTN_H THEN hs[idx].hits ELSE CMPLOG_MAP_RTN_H + 1

\* Mutant: the routine branch clamps to the instruction height.
CmpLogMap_usable_executions_for_M(hs, idx) ==
    IF CmpLogMap_executions_for(hs, idx) < CMPLOG_MAP_H
    THEN CmpLogMap_executions_for(hs, idx)
    ELSE CMPLOG_MAP_H

CmpLogMap_usable_executions_for(hs, idx) ==
    IF hs[idx].kind = CMPLOG_KIND_INS
    THEN IF CmpLogMap_executions_for(hs, idx) < CMPLOG_MAP_H
         THEN CmpLogMap_executions_for(hs, idx)
         ELSE CMPLOG_MAP_H
    ELSE IF CmpLogMap_executions_for(hs, idx) < CMPLOG_MAP_RTN_H
         THEN CmpLogMap_executions_for(hs, idx)
         ELSE CMPLOG_MAP_RTN_H

\* Mutant: any non-zero flag byte counts as "equal".
CmpLogMap_decode_ins_M(m, execution, tag, width) ==
    IF execution >= CMPLOG_MAP_H
    THEN Panic
    ELSE LET r == CmpLogInstruction_at(m, execution)
         IN  CmpValuesInt(tag, Trunc(r.f0, width), Trunc(r.f1, width), r.f2 # 0)

\* One arm of the width dispatch: operands[idx][execution] is bounds-checked.
CmpLogMap_decode_ins(m, execution, tag, width) ==
    IF execution >= CMPLOG_MAP_H
    THEN Panic
    ELSE LET r == CmpLogInstruction_at(m, execution)
         IN  CmpValuesInt(tag, Trunc(r.f0, width), Trunc(r.f1, width), r.f2 = 1)

\* Mutant: the second operand is taken from the first buffer.
CmpLogMap_decode_rtn_M(m, execution) ==
    IF execution >= CMPLOG_MAP_RTN_H
    THEN Panic
    ELSE LET r == CmpLogRoutine_at(m, execution)
         IN  CmpValuesBytes(CmplogBytes_from_buf_and_len(r.f0, CMPLOG_RTN_LEN),
                            CmplogBytes_from_buf_and_len(r.f0, CMPLOG_RTN_LEN))

CmpLogMap_decode_rtn(m, execution) ==
    IF execution >= CMPLOG_MAP_RTN_H
    THEN Panic
    ELSE LET r == CmpLogRoutine_at(m, execution)
         IN  CmpValuesBytes(CmplogBytes_from_buf_and_len(r.f0, CMPLOG_RTN_LEN),
                            CmplogBytes_from_buf_and_len(r.f1, CMPLOG_RTN_LEN))

\* Mutant: the shape is validated before the kind is looked at.
CmpLogMap_values_of_M3(hs, vs, idx, execution) ==
    LET shape == hs[idx].shape
    IN  IF shape \notin {0, 1, 3, 7, 15, 31, 63}
        THEN Panic
        ELSE IF hs[idx].kind # CMPLOG_KIND_INS
        THEN CmpLogMap_decode_rtn(vs[idx], execution)
        ELSE CASE shape = 0 -> CmpLogMap_decode_ins(vs[idx], execution, "U8", 1)
               [] shape = 1 -> CmpLogMap_decode_ins(vs[idx], execution, "U16", 2)
               [] shape = 3 -> CmpLogMap_decode_ins(vs[idx], execution, "U32", 4)
               [] shape = 7 -> CmpLogMap_decode_ins(vs[idx], execution, "U64", 8)
               [] OTHER -> None

\* Mutant: the shape is read as the exponent of the width, so shape 3 is
\* decoded as 8 bytes.
CmpLogMap_values_of_M2(hs, vs, idx, execution) ==
    IF hs[idx].kind = CMPLOG_KIND_INS
    THEN LET shape == hs[idx].shape
         IN  CASE shape = 0 -> CmpLogMap_decode_ins(vs[idx], execution, "U8", 1)
               [] shape = 1 -> CmpLogMap_decode_ins(vs[idx], execution, "U16", 2)
               [] shape = 3 -> CmpLogMap_decode_ins(vs[idx], execution, "U64", 8)
               [] shape \in {15, 31, 63} -> None
               [] OTHER -> Panic
    ELSE CmpLogMap_decode_rtn(vs[idx], execution)

\* Mutant: the arm for the 16/32/64-byte shapes is missing.
CmpLogMap_values_of_M(hs, vs, idx, execution) ==
    IF hs[idx].kind = CMPLOG_KIND_INS
    THEN LET shape == hs[idx].shape
         IN  CASE shape = 0 -> CmpLogMap_decode_ins(vs[idx], execution, "U8", 1)
               [] shape = 1 -> CmpLogMap_decode_ins(vs[idx], execution, "U16", 2)
               [] shape = 3 -> CmpLogMap_decode_ins(vs[idx], execution, "U32", 4)
               [] shape = 7 -> CmpLogMap_decode_ins(vs[idx], execution, "U64", 8)
               [] OTHER -> Panic
    ELSE CmpLogMap_decode_rtn(vs[idx], execution)

CmpLogMap_values_of(hs, vs, idx, execution) ==
    IF hs[idx].kind = CMPLOG_KIND_INS
    THEN LET shape == hs[idx].shape
         IN  CASE shape = 0 -> CmpLogMap_decode_ins(vs[idx], execution, "U8", 1)
               [] shape = 1 -> CmpLogMap_decode_ins(vs[idx], execution, "U16", 2)
               [] shape = 3 -> CmpLogMap_decode_ins(vs[idx], execution, "U32", 4)
               [] shape = 7 -> CmpLogMap_decode_ins(vs[idx], execution, "U64", 8)
               [] shape \in {15, 31, 63} -> None
               [] OTHER -> Panic
    ELSE CmpLogMap_decode_rtn(vs[idx], execution)

\* Mutant: the fill is skipped; reset only reports success.
CmpLogMap_reset_M2(hs) == hs

\* Mutant: only the hit counters are cleared.
CmpLogMap_reset_M(hs) == [idx \in DOMAIN hs |-> [hs[idx] EXCEPT !.hits = 0]]

CmpLogMap_reset(hs) == [idx \in DOMAIN hs |-> CmpLogHeader(0, 0, 0)]

(***************************************************************************)
(* impl CmpMap for AflppCmpLogMap                                          *)
(***************************************************************************)
AflppCmpLogMap_len == CMPLOG_MAP_W

AflppCmpLogMap_executions_for(hs, idx) == AflppCmpLogHeader_hits(hs[idx])

\* Mutant: the hit counter is returned without the clamp.
AflppCmpLogMap_usable_executions_for_M(hs, idx) ==
    AflppCmpLogMap_executions_for(hs, idx)

AflppCmpLogMap_usable_executions_for(hs, idx) ==
    IF AflppCmpLogHeader_type_(hs[idx]) = CMPLOG_KIND_INS
    THEN IF AflppCmpLogMap_executions_for(hs, idx) < CMPLOG_MAP_H
         THEN AflppCmpLogMap_executions_for(hs, idx)
         ELSE CMPLOG_MAP_H
    ELSE IF AflppCmpLogMap_executions_for(hs, idx) < CMPLOG_MAP_RTN_H
         THEN AflppCmpLogMap_executions_for(hs, idx)
         ELSE CMPLOG_MAP_RTN_H

\* Mutant: the second operand is read from the first operand's high limb.
AflppCmpLogMap_decode_ins_M2(m, execution, tag, width) ==
    IF execution >= CMPLOG_MAP_H
    THEN Panic
    ELSE LET r == AflppCmpLogOperands_at(m, execution)
         IN  CmpValuesInt(tag, Trunc(r.v0, width), Trunc(r.v0_128, width), FALSE)

\* Mutant: the flag is computed from the operands.
AflppCmpLogMap_decode_ins_M(m, execution, tag, width) ==
    IF execution >= CMPLOG_MAP_H
    THEN Panic
    ELSE LET r == AflppCmpLogOperands_at(m, execution)
         IN  CmpValuesInt(tag, Trunc(r.v0, width), Trunc(r.v1, width),
                          Trunc(r.v0, width) = Trunc(r.v1, width))

AflppCmpLogMap_decode_ins(m, execution, tag, width) ==
    IF execution >= CMPLOG_MAP_H
    THEN Panic
    ELSE LET r == AflppCmpLogOperands_at(m, execution)
         IN  CmpValuesInt(tag, Trunc(r.v0, width), Trunc(r.v1, width), FALSE)

\* Mutant: the length bytes are used unmasked.
AflppCmpLogMap_decode_rtn_M(m, execution) ==
    IF execution >= CMPLOG_MAP_RTN_EXTENDED_H
    THEN Panic
    ELSE LET r == AflppCmpLogFnOperands_at(m, execution)
         IN  CmpValuesBytes(CmplogBytes_from_buf_and_len(r.v0, r.v0_len),
                            CmplogBytes_from_buf_and_len(r.v1, r.v1_len))

AflppCmpLogMap_decode_rtn(m, execution) ==
    IF execution >= CMPLOG_MAP_RTN_EXTENDED_H
    THEN Panic
    ELSE LET r == AflppCmpLogFnOperands_at(m, execution)
             v0_len == r.v0_len % 128
             v1_len == r.v1_len % 128
         IN  CmpValuesBytes(CmplogBytes_from_buf_and_len(r.v0, v0_len),
                            CmplogBytes_from_buf_and_len(r.v1, v1_len))

\* Mutant: an unknown shape is reported as "no value".
AflppCmpLogMap_values_of_M(hs, vs, idx, execution) ==
    IF AflppCmpLogHeader_type_(hs[idx]) = CMPLOG_KIND_INS
    THEN LET shape == AflppCmpLogHeader_shape(hs[idx])
         IN  CASE shape = 0 -> AflppCmpLogMap_decode_ins(vs[idx], execution, "U8", 1)
               [] shape = 1 -> AflppCmpLogMap_decode_ins(vs[idx], execution, "U16", 2)
               [] shape = 3 -> AflppCmpLogMap_decode_ins(vs[idx], execution, "U32", 4)
               [] shape = 7 -> AflppCmpLogMap_decode_ins(vs[idx], execution, "U64", 8)
               [] OTHER -> None
    ELSE AflppCmpLogMap_decode_rtn(vs[idx], execution)

AflppCmpLogMap_values_of(hs, vs, idx, execution) ==
    IF AflppCmpLogHeader_type_(hs[idx]) = CMPLOG_KIND_INS
    THEN LET shape == AflppCmpLogHeader_shape(hs[idx])
         IN  CASE shape = 0 -> AflppCmpLogMap_decode_ins(vs[idx], execution, "U8", 1)
               [] shape = 1 -> AflppCmpLogMap_decode_ins(vs[idx], execution, "U16", 2)
               [] shape = 3 -> AflppCmpLogMap_decode_ins(vs[idx], execution, "U32", 4)
               [] shape = 7 -> AflppCmpLogMap_decode_ins(vs[idx], execution, "U64", 8)
               [] shape \in {15, 31, 63} -> None
               [] OTHER -> Panic
    ELSE AflppCmpLogMap_decode_rtn(vs[idx], execution)

\* Mutant: the fill stops after the first header that was in use.
AflppCmpLogMap_reset_M(hs) ==
    LET dirty == {idx \in DOMAIN hs : hs[idx] # 0}
    IN  [idx \in DOMAIN hs |->
            IF idx \in dirty /\ (\A j \in dirty : idx <= j)
            THEN AflppCmpLogHeader_new_with_raw_value(0)
            ELSE hs[idx]]

AflppCmpLogMap_reset(hs) ==
    [idx \in DOMAIN hs |-> AflppCmpLogHeader_new_with_raw_value(0)]

(***************************************************************************)
(* Stores into the payload region, as the instrumented target (or, for     *)
(* the AFL++ map, a holder of headers_mut / values_mut) performs them.     *)
(***************************************************************************)
CmpLogInstruction_store(m, e, r) ==
    LET base == e * SizeOf_CmpLogInstruction
    IN  WrBytes(WrBytes(WrBytes(m, base, r.f0), base + 8, r.f1), base + 16, <<r.f2>>)

CmpLogRoutine_store(m, e, r) ==
    LET base == e * SizeOf_CmpLogRoutine
    IN  WrBytes(WrBytes(m, base, r.f0), base + CMPLOG_RTN_LEN, r.f1)

AflppCmpLogOperands_store(m, e, r) ==
    LET base == e * SizeOf_AflppCmpLogOperands
    IN  WrBytes(m, base,
                r.v0 \o r.v0_128 \o r.v0_256_0 \o r.v0_256_1 \o
                r.v1 \o r.v1_128 \o r.v1_256_0 \o r.v1_256_1 \o r.unused)

AflppCmpLogFnOperands_store(m, e, r) ==
    LET base == e * SizeOf_AflppCmpLogFnOperands
    IN  WrBytes(m, base, r.v0 \o r.v1 \o <<r.v0_len, r.v1_len>> \o r.unused)

(***************************************************************************)
(* Inputs of the producer.                                                 *)
(***************************************************************************)
U64_0 == <<0, 0, 0, 0, 0, 0, 0, 0>>
U64_8 == <<8, 0, 0, 0, 0, 0, 0, 0>>
U64_10 == <<10, 0, 0, 0, 0, 0, 0, 0>>
U64_1000 == <<232, 3, 0, 0, 0, 0, 0, 0>>
\* 0x0807060504030201 and 0xF8F9FAFBFCFDFEFF
U64_A == <<1, 2, 3, 4, 5, 6, 7, 8>>
U64_B == <<255, 254, 253, 252, 251, 250, 249, 248>>

Hello == Pad(<<104, 101, 108, 108, 111>>, CMPLOG_RTN_LEN)
World == Pad(<<119, 111, 114, 108, 100>>, CMPLOG_RTN_LEN)
BufUp == [i \in 1..CMPLOG_RTN_LEN |-> i]
BufDown == [i \in 1..CMPLOG_RTN_LEN |-> 256 - i]

CmpLogHeaderInputs ==
    {CmpLogHeader(2, 0, CMPLOG_KIND_INS), CmpLogHeader(2, 1, CMPLOG_KIND_INS),
     CmpLogHeader(2, 3, CMPLOG_KIND_INS), CmpLogHeader(33, 7, CMPLOG_KIND_INS),
     CmpLogHeader(32, 15, CMPLOG_KIND_INS), CmpLogHeader(2, 31, CMPLOG_KIND_INS),
     CmpLogHeader(2, 63, CMPLOG_KIND_INS), CmpLogHeader(2, 5, CMPLOG_KIND_INS),
     CmpLogHeader(2, 0, CMPLOG_KIND_RTN), CmpLogHeader(12, 5, CMPLOG_KIND_RTN),
     CmpLogHeader(13, 15, 2), CmpLogHeader(65535, 7, 255)}

AflppCmpLogHeaderInputs ==
    {AflppCmpLogHeader_pack(2, 0, CMPLOG_KIND_INS, 0),
     AflppCmpLogHeader_pack(2, 1, CMPLOG_KIND_INS, 15),
     AflppCmpLogHeader_pack(2, 3, CMPLOG_KIND_INS, 0),
     AflppCmpLogHeader_pack(33, 7, CMPLOG_KIND_INS, 0),
     AflppCmpLogHeader_pack(32, 15, CMPLOG_KIND_INS, 0),
     AflppCmpLogHeader_pack(63, 31, CMPLOG_KIND_INS, 0),
     AflppCmpLogHeader_pack(2, 5, CMPLOG_KIND_INS, 0),
     AflppCmpLogHeader_pack(2, 0, CMPLOG_KIND_RTN, 15),
     AflppCmpLogHeader_pack(12, 5, CMPLOG_KIND_RTN, 0),
     AflppCmpLogHeader_pack(13, 15, CMPLOG_KIND_RTN, 0),
     AflppCmpLogHeader_pack(63, 31, CMPLOG_KIND_RTN, 0)}

\* <<slot, record>>
CmpLogInstructionInputs ==
    {<<0, [f0 |-> U64_8, f1 |-> U64_10, f2 |-> 0]>>,
     <<0, [f0 |-> U64_1000, f1 |-> U64_1000, f2 |-> 1]>>,
     <<1, [f0 |-> U64_A, f1 |-> U64_B, f2 |-> 2]>>}

CmpLogRoutineInputs ==
    {<<0, [f0 |-> Hello, f1 |-> World]>>,
     <<1, [f0 |-> BufUp, f1 |-> BufDown]>>}

AflppOperands(v0, v0_128, v1, v1_128, hi, unused) ==
    [v0 |-> v0, v0_128 |-> v0_128, v0_256_0 |-> hi, v0_256_1 |-> hi,
     v1 |-> v1, v1_128 |-> v1_128, v1_256_0 |-> hi, v1_256_1 |-> hi,
     unused |-> unused]

AflppCmpLogOperandsInputs ==
    {<<0, AflppOperands(U64_8, U64_0, U64_10, U64_0, U64_0, U64_0)>>,
     <<0, AflppOperands(U64_1000, U64_0, U64_1000, U64_0, U64_0, U64_0)>>,
     <<1, AflppOperands(U64_A, U64_B, U64_B, U64_A, U64_A, U64_B)>>}

AflppFnOperands(v0, v1, v0_len, v1_len, fill) ==
    [v0 |-> v0, v1 |-> v1, v0_len |-> v0_len, v1_len |-> v1_len,
     unused |-> [i \in 1..6 |-> fill]]

AflppCmpLogFnOperandsInputs ==
    {<<0, AflppFnOperands(Hello, World, 5, 5, 0)>>,
     <<0, AflppFnOperands(Hello, World, 133, 5, 0)>>,
     <<1, AflppFnOperands(BufUp, BufDown, 255, 64, 255)>>}

(***************************************************************************)
(* The state machine: one map (of either format), its producer and its     *)
(* consumer.  `last` is the most recent operation and what it returned.    *)
(***************************************************************************)
Compact == "CmpLogMap"
Wire == "AflppCmpLogMap"

Call(op, idx, execution, ret) ==
    [op |-> op, idx |-> idx, execution |-> execution, ret |-> ret]

Unit == [tag |-> "unit"]

\* Default for CmpLogMap (zeroed()) / AflppCmpLogMap::boxed() (alloc_zeroed)
CmpLogMap_default_headers == [idx \in Sites |-> CmpLogHeader(0, 0, 0)]
\* Mutant: alloc instead of alloc_zeroed; the memory holds what was there.
AflppCmpLogMap_boxed_headers_M ==
    [idx \in Sites |-> AflppCmpLogHeader_new_with_raw_value(65535)]

AflppCmpLogMap_boxed_headers == [idx \in Sites |-> AflppCmpLogHeader_new_with_raw_value(0)]
ZeroVals == [idx \in Sites |-> ZeroMem]

\* The parts of the state that a specification does not exercise.
RunIdle == phase = "none" /\ written = [idx \in Sites |-> {}]

SerdeIdle == serialized = None /\ copy = None

FnIdle == fnops = None /\ operands = None

RtIdle == GLOBAL_DATA = None /\ trace = <<>>

AuxInit == RunIdle /\ SerdeIdle /\ FnIdle /\ RtIdle

Init ==
    /\ fmt \in {Compact, Wire}
    /\ headers = IF fmt = Compact THEN CmpLogMap_default_headers
                                  ELSE AflppCmpLogMap_boxed_headers
    /\ vals = ZeroVals
    /\ last = Call("new", -1, -1, Unit)
    /\ nwrites = 0
    /\ AuxInit

\* A panic unwinds out of the consumer: nothing is called after it.
Running == last.ret.tag \notin {"panic", "fault"}

ProducerWriteHeader ==
    /\ Running
    /\ nwrites < MaxWrites
    /\ \E idx \in Sites :
         \E h \in (IF fmt = Compact THEN CmpLogHeaderInputs ELSE AflppCmpLogHeaderInputs) :
            /\ headers' = [headers EXCEPT ![idx] = h]
            /\ last' = Call("write_header", idx, -1, Unit)
    /\ nwrites' = nwrites + 1
    /\ UNCHANGED <<fmt, vals>>
    /\ UNCHANGED auxVars

ProducerWriteOperands ==
    /\ Running
    /\ nwrites < MaxWrites
    /\ \E idx \in Sites :
         \/ /\ fmt = Compact
            /\ \E w \in CmpLogInstructionInputs :
                 /\ vals' = [vals EXCEPT ![idx] = CmpLogInstruction_store(@, w[1], w[2])]
                 /\ last' = Call("write_operands", idx, w[1], Unit)
         \/ /\ fmt = Wire
            /\ \E w \in AflppCmpLogOperandsInputs :
                 /\ vals' = [vals EXCEPT ![idx] = AflppCmpLogOperands_store(@, w[1], w[2])]
                 /\ last' = Call("write_operands", idx, w[1], Unit)
    /\ nwrites' = nwrites + 1
    /\ UNCHANGED <<fmt, headers>>
    /\ UNCHANGED auxVars

ProducerWriteRoutine ==
    /\ Running
    /\ nwrites < MaxWrites
    /\ \E idx \in Sites :
         \/ /\ fmt = Compact
            /\ \E w \in CmpLogRoutineInputs :
                 /\ vals' = [vals EXCEPT ![idx] = CmpLogRoutine_store(@, w[1], w[2])]
                 /\ last' = Call("write_routine", idx, w[1], Unit)
         \/ /\ fmt = Wire
            /\ \E w \in AflppCmpLogFnOperandsInputs :
                 /\ vals' = [vals EXCEPT ![idx] = AflppCmpLogFnOperands_store(@, w[1], w[2])]
                 /\ last' = Call("write_routine", idx, w[1], Unit)
    /\ nwrites' = nwrites + 1
    /\ UNCHANGED <<fmt, headers>>
    /\ UNCHANGED auxVars

\* The consumer interface, dispatched on the concrete map (trait CmpMap).
len == IF fmt = Compact THEN CmpLogMap_len ELSE AflppCmpLogMap_len

executions_for(idx) ==
    IF fmt = Compact THEN CmpLogMap_executions_for(headers, idx)
                     ELSE AflppCmpLogMap_executions_for(headers, idx)

usable_executions_for(idx) ==
    IF fmt = Compact THEN CmpLogMap_usable_executions_for(headers, idx)
                     ELSE AflppCmpLogMap_usable_executions_for(headers, idx)

values_of(idx, execution) ==
    IF fmt = Compact THEN CmpLogMap_values_of(headers, vals, idx, execution)
                     ELSE AflppCmpLogMap_values_of(headers, vals, idx, execution)

CallLen ==
    /\ Running
    /\ last' = Call("len", -1, -1, Usize(len))
    /\ UNCHANGED <<fmt, headers, vals, nwrites>>
    /\ UNCHANGED auxVars

CallExecutionsFor ==
    /\ Running
    /\ \E idx \in Sites : last' = Call("executions_for", idx, -1, Usize(executions_for(idx)))
    /\ UNCHANGED <<fmt, headers, vals, nwrites>>
    /\ UNCHANGED auxVars

CallUsableExecutionsFor ==
    /\ Running
    /\ \E idx \in Sites :
         last' = Call("usable_executions_for", idx, -1, Usize(usable_executions_for(idx)))
    /\ UNCHANGED <<fmt, headers, vals, nwrites>>
    /\ UNCHANGED auxVars

CallValuesOf ==
    /\ Running
    /\ \E idx \in Sites, execution \in ReadSlots :
         last' = Call("values_of", idx, execution, values_of(idx, execution))
    /\ UNCHANGED <<fmt, headers, vals, nwrites>>
    /\ UNCHANGED auxVars

\* Mutant: the whole map is cleared, payload included.
CallReset_M ==
    /\ Running
    /\ headers' = IF fmt = Compact THEN CmpLogMap_reset(headers)
                                   ELSE AflppCmpLogMap_reset(headers)
    /\ vals' = ZeroVals
    /\ last' = Call("reset", -1, -1, Ok)
    /\ UNCHANGED <<fmt, nwrites>>
    /\ UNCHANGED auxVars

CallReset ==
    /\ Running
    /\ headers' = IF fmt = Compact THEN CmpLogMap_reset(headers)
                                   ELSE AflppCmpLogMap_reset(headers)
    /\ last' = Call("reset", -1, -1, Ok)
    /\ UNCHANGED <<fmt, vals, nwrites>>
    /\ UNCHANGED auxVars

Next ==
    \/ ProducerWriteHeader
    \/ ProducerWriteOperands
    \/ ProducerWriteRoutine
    \/ CallLen
    \/ CallExecutionsFor
    \/ CallUsableExecutionsFor
    \/ CallValuesOf
    \/ CallReset

Spec == Init /\ [][Next]_vars

(***************************************************************************)
(* Views of the current map used to state the properties.                  *)
(***************************************************************************)
hits_of(idx) ==
    IF fmt = Compact THEN headers[idx].hits ELSE AflppCmpLogHeader_hits(headers[idx])

kind_of(idx) ==
    IF fmt = Compact THEN headers[idx].kind ELSE AflppCmpLogHeader_type_(headers[idx])

shape_of(idx) ==
    IF fmt = Compact THEN headers[idx].shape ELSE AflppCmpLogHeader_shape(headers[idx])

\* The number of slots of the payload array that values_of indexes for the
\* site's kind: operands[idx] / routines[idx] / fn_operands[idx].
capacity_for(idx) ==
    IF kind_of(idx) = CMPLOG_KIND_INS THEN CMPLOG_MAP_H
    ELSE IF fmt = Compact THEN CMPLOG_MAP_RTN_H
    ELSE CMPLOG_MAP_RTN_EXTENDED_H

Min(a, b) == IF a <= b THEN a ELSE b

\* The number whose three low base-256 digits are those of x.
Low24(x) == x[1] + 256 * x[2] + 65536 * x[3]

\* The number with digits x, for at most two digits.
Val2(x) == IF Len(x) = 1 THEN x[1] ELSE x[1] + 256 * x[2]

IntTag(shape) ==
    CASE shape = 0 -> "U8" [] shape = 1 -> "U16" [] shape = 3 -> "U32" [] shape = 7 -> "U64"

Returned(op) == last.op = op

(***************************************************************************)
(* C1: on the CmpLogMap, usable_executions_for(site) is                    *)
(* min(executions_for(site), CMPLOG_MAP_H) for an instruction site and     *)
(* min(executions_for(site), CMPLOG_MAP_RTN_H) for any other kind, for     *)
(* every site and every header content.                                    *)
(***************************************************************************)
C1_UsableIsMin ==
    fmt = Compact =>
        /\ \A idx \in Sites :
             usable_executions_for(idx) =
                Min(executions_for(idx),
                    IF headers[idx].kind = CMPLOG_KIND_INS THEN CMPLOG_MAP_H
                                                           ELSE CMPLOG_MAP_RTN_H)
        /\ Returned("usable_executions_for") =>
             last.ret = Usize(Min(headers[last.idx].hits,
                                  IF headers[last.idx].kind = CMPLOG_KIND_INS
                                  THEN CMPLOG_MAP_H ELSE CMPLOG_MAP_RTN_H))

\* A routine site hit more often than it has slots was asked for.
C1_Witness ==
    /\ fmt = Compact
    /\ Returned("usable_executions_for")
    /\ headers[last.idx].kind # CMPLOG_KIND_INS
    /\ headers[last.idx].hits > CMPLOG_MAP_RTN_H
    /\ last.ret = Usize(CMPLOG_MAP_RTN_H)

(***************************************************************************)
(* C2: in both maps, whatever the producer wrote and however often reset   *)
(* ran, usable_executions_for(site) never exceeds the number of slots of   *)
(* the payload array of the site's kind.                                   *)
(***************************************************************************)
C2_UsableWithinCapacity ==
    /\ \A idx \in Sites : usable_executions_for(idx) <= capacity_for(idx)
    /\ Returned("usable_executions_for") => last.ret.n <= capacity_for(last.idx)

\* An AFL++ routine site whose hit counter is past every capacity.
C2_Witness ==
    /\ fmt = Wire
    /\ Returned("usable_executions_for")
    /\ kind_of(last.idx) # CMPLOG_KIND_INS
    /\ hits_of(last.idx) > CMPLOG_MAP_RTN_EXTENDED_H
    /\ last.ret.n <= CMPLOG_MAP_RTN_EXTENDED_H

(***************************************************************************)
(* C3: on the AflppCmpLogMap, usable_executions_for of a routine site is   *)
(* min(executions_for(site), CMPLOG_MAP_RTN_EXTENDED_H).                   *)
(***************************************************************************)
C3_WireRoutineUsesExtendedHeight ==
    (fmt = Wire /\ Returned("usable_executions_for")
                /\ kind_of(last.idx) # CMPLOG_KIND_INS) =>
        last.ret = Usize(Min(executions_for(last.idx), CMPLOG_MAP_RTN_EXTENDED_H))

(***************************************************************************)
(* C4: on the CmpLogMap, values_of on an instruction site of shape         *)
(* 0/1/3/7 and a slot of the operands array returns U8/U16/U32/U64 whose   *)
(* operands are the stored 64-bit operands modulo 2^(8*(shape+1)) (their   *)
(* shape+1 low base-256 digits) and whose flag is true exactly when the    *)
(* stored flag byte is 1; (8,10,0) of shape 0 gives U8((8,10,false)) and   *)
(* (1000,1000,1) of shape 3 gives U32((1000,1000,true)).                   *)
(***************************************************************************)
C4_CompactInstructionDecode ==
    (/\ fmt = Compact
     /\ Returned("values_of")
     /\ headers[last.idx].kind = CMPLOG_KIND_INS
     /\ headers[last.idx].shape \in {0, 1, 3, 7}
     /\ last.execution < CMPLOG_MAP_H) =>
        LET shape == headers[last.idx].shape
            base == last.execution * SizeOf_CmpLogInstruction
            s0 == RdBytes(vals[last.idx], base, 8)
            s1 == RdBytes(vals[last.idx], base + 8, 8)
            flag == Rd(vals[last.idx], base + 16)
        IN  /\ last.ret.tag = IntTag(shape)
            /\ Len(last.ret.v0) = shape + 1
            /\ Len(last.ret.v1) = shape + 1
            /\ \A i \in 1..(shape + 1) :
                 last.ret.v0[i] = s0[i] /\ last.ret.v1[i] = s1[i]
            /\ last.ret.eq = (flag = 1)
            /\ shape = 0 => /\ Val2(last.ret.v0) = Low24(s0) % 256
                            /\ Val2(last.ret.v1) = Low24(s1) % 256
            /\ shape = 1 => /\ Val2(last.ret.v0) = Low24(s0) % 65536
                            /\ Val2(last.ret.v1) = Low24(s1) % 65536
            /\ (shape = 0 /\ s0 = U64_8 /\ s1 = U64_10 /\ flag = 0) =>
                 last.ret = CmpValuesInt("U8", <<8>>, <<10>>, FALSE)
            /\ (shape = 3 /\ s0 = U64_1000 /\ s1 = U64_1000 /\ flag = 1) =>
                 last.ret = CmpValuesInt("U32", <<232, 3, 0, 0>>, <<232, 3, 0, 0>>, TRUE)

\* The 32-bit comparison (1000, 1000, true) was recorded and decoded.
C4_Witness ==
    /\ fmt = Compact
    /\ Returned("values_of")
    /\ headers[last.idx] = CmpLogHeader(2, 3, CMPLOG_KIND_INS)
    /\ last.execution < usable_executions_for(last.idx)
    /\ CmpLogInstruction_at(vals[last.idx], last.execution) =
          [f0 |-> U64_1000, f1 |-> U64_1000, f2 |-> 1]
    /\ last.ret = CmpValuesInt("U32", <<232, 3, 0, 0>>, <<232, 3, 0, 0>>, TRUE)

(***************************************************************************)
(* C5: in both maps, values_of on an instruction site of shape 15, 31 or   *)
(* 63 returns None, for every slot and every payload content.              *)
(***************************************************************************)
C5_WideShapesAreNone ==
    /\ (Returned("values_of") /\ kind_of(last.idx) = CMPLOG_KIND_INS
                              /\ shape_of(last.idx) \in {15, 31, 63}) =>
          last.ret = None
    /\ \A idx \in Sites, execution \in ReadSlots :
          (kind_of(idx) = CMPLOG_KIND_INS /\ shape_of(idx) \in {15, 31, 63}) =>
             values_of(idx, execution) = None

\* A 64-byte shape on a site whose payload holds data.
C5_Witness ==
    /\ Returned("values_of")
    /\ kind_of(last.idx) = CMPLOG_KIND_INS
    /\ shape_of(last.idx) = 63
    /\ vals[last.idx] # ZeroMem
    /\ last.ret = None

(***************************************************************************)
(* C6: in both maps, values_of on an instruction site whose shape is none  *)
(* of 0, 1, 3, 7, 15, 31, 63 panics: it returns neither a value nor None.  *)
(***************************************************************************)
C6_InvalidShapePanics ==
    (Returned("values_of") /\ kind_of(last.idx) = CMPLOG_KIND_INS
                           /\ shape_of(last.idx) \notin {0, 1, 3, 7, 15, 31, 63}) =>
        last.ret = Panic

\* Shape 5 on the AFL++ map.
C6_Witness ==
    /\ fmt = Wire
    /\ Returned("values_of")
    /\ kind_of(last.idx) = CMPLOG_KIND_INS
    /\ shape_of(last.idx) = 5
    /\ last.execution < usable_executions_for(last.idx)
    /\ last.ret = Panic

(***************************************************************************)
(* C7: on the CmpLogMap, values_of on a site of any kind but INSTRUCTION   *)
(* and a slot of the routines array returns Bytes holding the slot's two   *)
(* stored 32-byte buffers unchanged, both with length 32.                  *)
(***************************************************************************)
C7_CompactRoutineDecode ==
    (/\ fmt = Compact
     /\ Returned("values_of")
     /\ headers[last.idx].kind # CMPLOG_KIND_INS
     /\ last.execution < CMPLOG_MAP_RTN_H) =>
        LET base == last.execution * SizeOf_CmpLogRoutine
        IN  /\ last.ret.tag = "Bytes"
            /\ last.ret.b0.buf = RdBytes(vals[last.idx], base, 32)
            /\ last.ret.b1.buf = RdBytes(vals[last.idx], base + 32, 32)
            /\ last.ret.b0.len = 32
            /\ last.ret.b1.len = 32

\* "hello" / "world" recorded at a routine site and decoded.
C7_Witness ==
    /\ fmt = Compact
    /\ Returned("values_of")
    /\ headers[last.idx].kind = CMPLOG_KIND_RTN
    /\ last.execution < usable_executions_for(last.idx)
    /\ last.ret = CmpValuesBytes([buf |-> Hello, len |-> 32], [buf |-> World, len |-> 32])

(***************************************************************************)
(* C8: on the AflppCmpLogMap, values_of on an instruction site of shape    *)
(* 0/1/3/7 returns U8/U16/U32/U64 built from the low limbs v0 and v1       *)
(* truncated to the width, and the flag is false for every record, also    *)
(* when the two operands are equal.                                        *)
(***************************************************************************)
C8_WireInstructionDecode ==
    (/\ fmt = Wire
     /\ Returned("values_of")
     /\ kind_of(last.idx) = CMPLOG_KIND_INS
     /\ shape_of(last.idx) \in {0, 1, 3, 7}
     /\ last.execution < CMPLOG_MAP_H) =>
        LET shape == shape_of(last.idx)
            base == last.execution * SizeOf_AflppCmpLogOperands
            s0 == RdBytes(vals[last.idx], base, 8)
            s1 == RdBytes(vals[last.idx], base + 32, 8)
        IN  /\ last.ret.tag = IntTag(shape)
            /\ last.ret.v0 = [i \in 1..(shape + 1) |-> s0[i]]
            /\ last.ret.v1 = [i \in 1..(shape + 1) |-> s1[i]]
            /\ last.ret.eq = FALSE

\* Two equal operands (1000, 1000) decoded as 32-bit: the flag is false.
C8_Witness ==
    /\ fmt = Wire
    /\ Returned("values_of")
    /\ kind_of(last.idx) = CMPLOG_KIND_INS
    /\ shape_of(last.idx) = 3
    /\ last.execution < usable_executions_for(last.idx)
    /\ last.ret = CmpValuesInt("U32", <<232, 3, 0, 0>>, <<232, 3, 0, 0>>, FALSE)

(***************************************************************************)
(* A second specification for the length bytes of the AFL++ routine        *)
(* record: the map starts with one routine call recorded at one site,      *)
(* carrying any pair of length bytes, and the consumer drains and resets.  *)
(***************************************************************************)
InitLen ==
    /\ fmt = Wire
    /\ headers = [idx \in Sites |-> AflppCmpLogHeader_pack(2, 0, CMPLOG_KIND_RTN, 0)]
    /\ \E idx \in Sites, e \in WriteSlots, l \in Byte :
         vals = [ZeroVals EXCEPT ![idx] =
                    AflppCmpLogFnOperands_store(@, e,
                        AflppFnOperands(Hello, World, l, 255 - l, 0))]
    /\ last = Call("new", -1, -1, Unit)
    /\ nwrites = 0
    /\ AuxInit

NextLen ==
    \/ CallExecutionsFor
    \/ CallUsableExecutionsFor
    \/ CallValuesOf
    \/ CallReset

SpecLen == InitLen /\ [][NextLen]_vars

\* l & 0x7F
ClearTopBit(l) == IF l >= 128 THEN l - 128 ELSE l

(***************************************************************************)
(* C9: on the AflppCmpLogMap, values_of on a routine site returns the two  *)
(* stored 32-byte buffers unchanged, each with the stored length byte with *)
(* its top bit cleared, for every length byte 0..255 (0x85 gives 5).       *)
(***************************************************************************)
C9_WireLengthMask ==
    (/\ fmt = Wire
     /\ Returned("values_of")
     /\ kind_of(last.idx) # CMPLOG_KIND_INS
     /\ last.execution < CMPLOG_MAP_RTN_EXTENDED_H) =>
        LET base == last.execution * SizeOf_AflppCmpLogFnOperands
            l0 == Rd(vals[last.idx], base + 64)
            l1 == Rd(vals[last.idx], base + 65)
        IN  /\ last.ret.tag = "Bytes"
            /\ last.ret.b0.len = ClearTopBit(l0)
            /\ last.ret.b1.len = ClearTopBit(l1)
            /\ last.ret.b0.buf = RdBytes(vals[last.idx], base, 32)
            /\ last.ret.b1.buf = RdBytes(vals[last.idx], base + 32, 32)
            /\ l0 = 133 => last.ret.b0.len = 5

\* The length byte 0x85 was stored and decoded as 5.
C9_Witness ==
    /\ fmt = Wire
    /\ Returned("values_of")
    /\ kind_of(last.idx) = CMPLOG_KIND_RTN
    /\ last.execution < usable_executions_for(last.idx)
    /\ Rd(vals[last.idx], last.execution * SizeOf_AflppCmpLogFnOperands + 64) = 133
    /\ last.ret.b0 = [buf |-> Hello, len |-> 5]
    /\ last.ret.b1 = [buf |-> World, len |-> 122]

(***************************************************************************)
(* C10: in both maps reset() returns Ok, and right after it every site has *)
(* hits, kind and shape 0, hence executions_for and usable_executions_for  *)
(* 0; this lasts until the producer writes again.                          *)
(***************************************************************************)
AllSitesZero ==
    \A idx \in Sites :
        /\ hits_of(idx) = 0
        /\ kind_of(idx) = 0
        /\ shape_of(idx) = 0
        /\ executions_for(idx) = 0
        /\ usable_executions_for(idx) = 0

ProducerOps == {"write_header", "write_operands", "write_routine"}

C10_ResetClearsHeaders ==
    [][/\ last'.op = "reset" => (last'.ret = Ok /\ AllSitesZero')
       /\ (AllSitesZero /\ last'.op \notin ProducerOps) => AllSitesZero']_vars

\* reset() ran on a map whose only writes were header writes.
C10_Witness ==
    /\ Returned("reset")
    /\ nwrites = MaxWrites
    /\ vals = ZeroVals
    /\ last.ret = Ok
    /\ AllSitesZero

(***************************************************************************)
(* C11: reset() is idempotent in both maps: what a reset leaves is a fixed *)
(* point of reset, and a reset that directly follows a reset changes       *)
(* neither a header nor a payload byte.                                    *)
(***************************************************************************)
HeadersAfterReset(hs) ==
    IF fmt = Compact THEN CmpLogMap_reset(hs) ELSE AflppCmpLogMap_reset(hs)

C11_ResetIdempotent ==
    [][last'.op = "reset" =>
          /\ HeadersAfterReset(headers') = headers'
          /\ last.op = "reset" => (headers' = headers /\ vals' = vals)]_vars

\* reset() ran on an AFL++ map that holds payload.
C11_Witness ==
    /\ fmt = Wire
    /\ Returned("reset")
    /\ \E idx \in Sites : vals[idx] # ZeroMem
    /\ HeadersAfterReset(headers) = headers

(***************************************************************************)
(* C12: reset() leaves the payload untouched in both maps: every operand   *)
(* record and every routine record reads after it as before it.            *)
(***************************************************************************)
SamePayloadRecords(a, b) ==
    \A idx \in Sites, e \in WriteSlots :
        IF fmt = Compact
        THEN /\ CmpLogInstruction_at(a[idx], e) = CmpLogInstruction_at(b[idx], e)
             /\ CmpLogRoutine_at(a[idx], e) = CmpLogRoutine_at(b[idx], e)
        ELSE /\ AflppCmpLogOperands_at(a[idx], e) = AflppCmpLogOperands_at(b[idx], e)
             /\ AflppCmpLogFnOperands_at(a[idx], e) = AflppCmpLogFnOperands_at(b[idx], e)

C12_ResetKeepsPayload ==
    [][last'.op = "reset" => (vals' = vals /\ SamePayloadRecords(vals', vals))]_vars

\* reset() ran on a compact map whose slot 0 of some site holds "hello" / "world".
C12_Witness ==
    /\ fmt = Compact
    /\ Returned("reset")
    /\ \E idx \in Sites : CmpLogRoutine_at(vals[idx], 0) = [f0 |-> Hello, f1 |-> World]

(***************************************************************************)
(* C17: a map fresh from AflppCmpLogMap::boxed() or CmpLogMap::default()   *)
(* is all zero: every header has hits 0, kind INSTRUCTION and shape 0,     *)
(* every payload byte is 0, and no site has a usable execution.            *)
(***************************************************************************)
PayloadEnd == CMPLOG_MAP_H * (IF fmt = Compact THEN SizeOf_CmpLogInstruction
                                               ELSE SizeOf_AflppCmpLogOperands)

C17_FreshMapIsZero ==
    Returned("new") =>
        \A idx \in Sites :
            /\ hits_of(idx) = 0
            /\ kind_of(idx) = CMPLOG_KIND_INS
            /\ shape_of(idx) = 0
            /\ executions_for(idx) = 0
            /\ usable_executions_for(idx) = 0
            /\ vals[idx] = ZeroMem
            /\ \A off \in {0, 1, 64, 65, PayloadEnd - 1} : Rd(vals[idx], off) = 0

\* A boxed AFL++ map before anything is stored into it.
C17_Witness ==
    /\ fmt = Wire
    /\ Returned("new")
    /\ headers = AflppCmpLogMap_boxed_headers
    /\ usable_executions_for(CMPLOG_MAP_W - 1) = 0
    /\ Rd(vals[CMPLOG_MAP_W - 1], PayloadEnd - 1) = 0

(***************************************************************************)
(* C15: for an instruction site of shape 0, 1, 3 or 7, values_of returns   *)
(* operands of shape + 1 bytes (1, 2, 4, 8), in the variant of that width. *)
(* As stated, with a width of 2^shape bytes, the property fails for the    *)
(* shapes 3 and 7.                                                         *)
(***************************************************************************)
\* The bytes of the integer a variant carries.
WidthOf(tag) ==
    CASE tag = "U8" -> 1 [] tag = "U16" -> 2 [] tag = "U32" -> 4 [] tag = "U64" -> 8

DecodedInstruction ==
    /\ Returned("values_of")
    /\ kind_of(last.idx) = CMPLOG_KIND_INS
    /\ shape_of(last.idx) \in {0, 1, 3, 7}
    /\ last.execution < CMPLOG_MAP_H

\* The claim as stated.
C15_WidthIsTwoToShape ==
    DecodedInstruction =>
        /\ last.ret.tag \in {"U8", "U16", "U32", "U64"}
        /\ WidthOf(last.ret.tag) = 2 ^ shape_of(last.idx)
        /\ Len(last.ret.v0) = 2 ^ shape_of(last.idx)
        /\ Len(last.ret.v1) = 2 ^ shape_of(last.idx)

C15_WidthIsShapePlusOne ==
    DecodedInstruction =>
        /\ last.ret.tag \in {"U8", "U16", "U32", "U64"}
        /\ WidthOf(last.ret.tag) = shape_of(last.idx) + 1
        /\ Len(last.ret.v0) = shape_of(last.idx) + 1
        /\ Len(last.ret.v1) = shape_of(last.idx) + 1

\* A site of shape 3 was decoded on the compact map: four bytes, not eight.
C15_Witness ==
    /\ fmt = Compact
    /\ DecodedInstruction
    /\ shape_of(last.idx) = 3
    /\ last.ret.tag = "U32"
    /\ Len(last.ret.v0) = 4

(***************************************************************************)
(* AflppCmpLogFnOperands held by value: new, set_v0, set_v1, and the       *)
(* store of the value into a routine site of an AFL++ map.                 *)
(***************************************************************************)
\* <[T]>::copy_from_slice(&mut dst, src): panics unless both have one length.
copy_from_slice(dst, src) == IF Len(src) # Len(dst) THEN Panic ELSE src

\* v.len() as u8
LenAsU8(v) == Len(v) % 256

AflppCmpLogFnOperands_new(v0, v1) ==
    LET v0_len == LenAsU8(v0)
        v1_len == LenAsU8(v1)
        v0_arr == copy_from_slice([i \in 1..32 |-> 0], v0)
        v1_arr == copy_from_slice([i \in 1..32 |-> 0], v1)
    IN  IF v0_arr = Panic \/ v1_arr = Panic
        THEN Panic
        ELSE [v0 |-> v0_arr, v1 |-> v1_arr, v0_len |-> v0_len, v1_len |-> v1_len,
              unused |-> [i \in 1..6 |-> 0]]

\* The length is assigned before the copy that may panic.
AflppCmpLogFnOperands_set_v0(self, v0) ==
    LET arr == copy_from_slice(self.v0, v0)
    IN  [self EXCEPT !.v0_len = LenAsU8(v0), !.v0 = IF arr = Panic THEN @ ELSE arr]

AflppCmpLogFnOperands_set_v1(self, v1) ==
    LET arr == copy_from_slice(self.v1, v1)
    IN  [self EXCEPT !.v1_len = LenAsU8(v1), !.v1 = IF arr = Panic THEN @ ELSE arr]

b_hello == <<104, 101, 108, 108, 111>>
b_world == <<119, 111, 114, 108, 100>>

\* Slices of 0, 5, 32 and 33 bytes.
SliceInputs == {<<>>, b_hello, b_world, Hello, World, [i \in 1..33 |-> i]}

FnCall(op, args, ret) ==
    [op |-> op, idx |-> -1, execution |-> -1, ret |-> ret, args |-> args]

InitFn ==
    /\ fmt = Wire
    /\ headers = AflppCmpLogMap_boxed_headers
    /\ vals = ZeroVals
    /\ last = Call("new", -1, -1, Unit)
    /\ nwrites = 0
    /\ RunIdle /\ SerdeIdle /\ FnIdle /\ RtIdle

FnNew ==
    /\ Running
    /\ \E v0 \in SliceInputs, v1 \in SliceInputs :
         LET r == AflppCmpLogFnOperands_new(v0, v1)
         IN  /\ fnops' = IF r = Panic THEN fnops ELSE r
             /\ last' = FnCall("AflppCmpLogFnOperands::new", <<v0, v1>>,
                               IF r = Panic THEN Panic ELSE Ok)
    /\ UNCHANGED <<fmt, headers, vals, nwrites, operands, runVars, serdeVars, rtVars>>

FnSetV0 ==
    /\ Running
    /\ fnops # None
    /\ \E v0 \in SliceInputs :
         /\ fnops' = AflppCmpLogFnOperands_set_v0(fnops, v0)
         /\ last' = FnCall("set_v0", <<v0>>,
                           IF copy_from_slice(fnops.v0, v0) = Panic THEN Panic ELSE Unit)
    /\ UNCHANGED <<fmt, headers, vals, nwrites, operands, runVars, serdeVars, rtVars>>

FnSetV1 ==
    /\ Running
    /\ fnops # None
    /\ \E v1 \in SliceInputs :
         /\ fnops' = AflppCmpLogFnOperands_set_v1(fnops, v1)
         /\ last' = FnCall("set_v1", <<v1>>,
                           IF copy_from_slice(fnops.v1, v1) = Panic THEN Panic ELSE Unit)
    /\ UNCHANGED <<fmt, headers, vals, nwrites, operands, runVars, serdeVars, rtVars>>

\* fn_operands_mut()[idx][e] = fnops, with the site's header set to a
\* routine site of e + 1 hits through headers_mut().
FnStore ==
    /\ Running
    /\ fnops # None
    /\ nwrites < MaxWrites
    /\ \E idx \in Sites, e \in WriteSlots :
         /\ vals' = [vals EXCEPT ![idx] = AflppCmpLogFnOperands_store(@, e, fnops)]
         /\ headers' = [headers EXCEPT
                           ![idx] = AflppCmpLogHeader_pack(e + 1, 0, CMPLOG_KIND_RTN, 0)]
         /\ last' = Call("write_routine", idx, e, Unit)
    /\ nwrites' = nwrites + 1
    /\ UNCHANGED <<fmt, fnops, operands, runVars, serdeVars, rtVars>>

NextFn ==
    \/ FnNew
    \/ FnSetV0
    \/ FnSetV1
    \/ FnStore
    \/ CallValuesOf

SpecFn == InitFn /\ [][NextFn]_vars

(***************************************************************************)
(* C16: AflppCmpLogFnOperands::new, set_v0 and set_v1 accept every slice   *)
(* of at most 32 bytes, store it zero-padded to 32 bytes and record its    *)
(* length; a record made of b"hello" and b"world" decodes, in a routine    *)
(* site of the AFL++ map, to Bytes of lengths 5 and 5.                     *)
(***************************************************************************)
ShortEnough(args) == \A i \in DOMAIN args : Len(args[i]) <= CMPLOG_RTN_LEN

C16_FnOperandsAcceptShortSlices ==
    /\ (Returned("AflppCmpLogFnOperands::new") /\ ShortEnough(last.args)) =>
          /\ last.ret = Ok
          /\ fnops.v0 = Pad(last.args[1], CMPLOG_RTN_LEN)
          /\ fnops.v1 = Pad(last.args[2], CMPLOG_RTN_LEN)
          /\ fnops.v0_len = Len(last.args[1])
          /\ fnops.v1_len = Len(last.args[2])
    /\ (Returned("set_v0") /\ ShortEnough(last.args)) =>
          /\ last.ret = Unit
          /\ fnops.v0 = Pad(last.args[1], CMPLOG_RTN_LEN)
          /\ fnops.v0_len = Len(last.args[1])
    /\ (Returned("set_v1") /\ ShortEnough(last.args)) =>
          /\ last.ret = Unit
          /\ fnops.v1 = Pad(last.args[1], CMPLOG_RTN_LEN)
          /\ fnops.v1_len = Len(last.args[1])
    /\ (/\ Returned("values_of")
        /\ last.execution \in WriteSlots
        /\ AflppCmpLogHeader_type_(headers[last.idx]) = CMPLOG_KIND_RTN
        /\ AflppCmpLogFnOperands_at(vals[last.idx], last.execution).v0 = Pad(b_hello, 32)
        /\ AflppCmpLogFnOperands_at(vals[last.idx], last.execution).v1 = Pad(b_world, 32)) =>
          /\ last.ret.tag = "Bytes"
          /\ last.ret.b0.len = 5
          /\ last.ret.b1.len = 5

(***************************************************************************)
(* impl Serialize / Deserialize for AflppCmpLogMap: the map travels as the *)
(* image of its memory, headers first, then the payload union.  The image  *)
(* is kept like a region: its length and its non-zero bytes.               *)
(***************************************************************************)
SizeOf_AflppCmpLogHeader == 2

\* size_of one element of AflppCmpLogVals: [AflppCmpLogOperands; CMPLOG_MAP_H]
SizeOf_AflppCmpLogValsRow == CMPLOG_MAP_H * SizeOf_AflppCmpLogOperands

\* offset_of!(AflppCmpLogMap, vals)
OffsetOf_vals == CMPLOG_MAP_W * SizeOf_AflppCmpLogHeader

SizeOf_AflppCmpLogMap == OffsetOf_vals + CMPLOG_MAP_W * SizeOf_AflppCmpLogValsRow

\* The byte at address a of a map with headers hs and payload vs.
AflppCmpLogMap_byte_at(hs, vs, a) ==
    IF a < OffsetOf_vals
    THEN LET raw == hs[a \div SizeOf_AflppCmpLogHeader]
         IN  IF a % SizeOf_AflppCmpLogHeader = 0 THEN raw % 256 ELSE raw \div 256
    ELSE LET rel == a - OffsetOf_vals
         IN  Rd(vs[rel \div SizeOf_AflppCmpLogValsRow], rel % SizeOf_AflppCmpLogValsRow)

\* Mutant: only the payload is serialized (&self.vals, size_of::<AflppCmpLogVals>()).
AflppCmpLogMap_serialize_M(hs, vs) ==
    LET addrs == {idx * SizeOf_AflppCmpLogValsRow + o : idx \in DOMAIN vs, o \in 0..143}
        at(a) == Rd(vs[a \div SizeOf_AflppCmpLogValsRow], a % SizeOf_AflppCmpLogValsRow)
        nz == {a \in addrs : at(a) # 0}
    IN  [len |-> CMPLOG_MAP_W * SizeOf_AflppCmpLogValsRow, mem |-> [a \in nz |-> at(a)]]

\* slice::from_raw_parts(self as *const u8, size_of::<Self>()), handed to
\* serialize_bytes.
AflppCmpLogMap_serialize(hs, vs) ==
    LET haddrs == {idx * SizeOf_AflppCmpLogHeader + k : idx \in DOMAIN hs, k \in {0, 1}}
        vaddrs == UNION {{OffsetOf_vals + idx * SizeOf_AflppCmpLogValsRow + o :
                             o \in DOMAIN vs[idx]} : idx \in DOMAIN vs}
        nz == {a \in haddrs \cup vaddrs : AflppCmpLogMap_byte_at(hs, vs, a) # 0}
    IN  [len |-> SizeOf_AflppCmpLogMap,
         mem |-> [a \in nz |-> AflppCmpLogMap_byte_at(hs, vs, a)]]

\* ptr::read(bytes.as_ptr() as *const AflppCmpLogMap)
AflppCmpLogMap_deserialize(b) ==
    [headers |-> [idx \in Sites |->
                     AflppCmpLogHeader_new_with_raw_value(
                         Rd(b.mem, idx * SizeOf_AflppCmpLogHeader)
                         + 256 * Rd(b.mem, idx * SizeOf_AflppCmpLogHeader + 1))],
     vals |-> [idx \in Sites |->
                  LET base == OffsetOf_vals + idx * SizeOf_AflppCmpLogValsRow
                      offs == {a - base : a \in {x \in DOMAIN b.mem :
                                   base <= x /\ x < base + SizeOf_AflppCmpLogValsRow}}
                  IN  [o \in offs |-> b.mem[base + o]]]]

\* A populated AFL++ map: one site with a header and one record.
InitSerde ==
    /\ fmt = Wire
    /\ \E idx \in Sites, h \in AflppCmpLogHeaderInputs,
          w \in AflppCmpLogOperandsInputs \cup AflppCmpLogFnOperandsInputs :
         /\ headers = [AflppCmpLogMap_boxed_headers EXCEPT ![idx] = h]
         /\ vals = [ZeroVals EXCEPT ![idx] =
                       IF w \in AflppCmpLogOperandsInputs
                       THEN AflppCmpLogOperands_store(@, w[1], w[2])
                       ELSE AflppCmpLogFnOperands_store(@, w[1], w[2])]
    /\ last = Call("new", -1, -1, Unit)
    /\ nwrites = 0
    /\ RunIdle /\ SerdeIdle /\ FnIdle /\ RtIdle

CallSerialize ==
    /\ Running
    /\ serialized' = AflppCmpLogMap_serialize(headers, vals)
    /\ last' = Call("serialize", -1, -1, Ok)
    /\ UNCHANGED <<fmt, headers, vals, nwrites, copy, runVars, fnVars, rtVars>>

\* The process dies on a read of unmapped memory.
Fault == [tag |-> "fault"]

\* The lengths at which the byte string arrives when it is not the image as
\* it was written: empty, the headers only, one byte short, one byte more.
InputLengths ==
    {0, OffsetOf_vals, SizeOf_AflppCmpLogMap - 1, SizeOf_AflppCmpLogMap + 1}

\* The byte string handed to the deserializer is not the one that was
\* written: it was cut, or a byte was appended.
Transport ==
    /\ Running
    /\ serialized # None
    /\ serialized.len = SizeOf_AflppCmpLogMap
    /\ \E n \in InputLengths :
         LET kept == {a \in DOMAIN serialized.mem : a < n}
             more == IF n > serialized.len THEN {serialized.len} ELSE {}
         IN  /\ serialized' =
                   [len |-> n,
                    mem |-> [a \in kept \cup more |->
                                IF a \in kept THEN serialized.mem[a] ELSE 255]]
             /\ last' = Call("transport", -1, n, Unit)
    /\ UNCHANGED <<fmt, headers, vals, nwrites, copy, runVars, fnVars, rtVars>>

\* The addresses of the image that the map's sites are read from.
SiteAddresses ==
    {idx * SizeOf_AflppCmpLogHeader + k : idx \in Sites, k \in {0, 1}}
    \cup {OffsetOf_vals + idx * SizeOf_AflppCmpLogValsRow + o : idx \in Sites, o \in 0..143}

\* What ptr::read sees for a Vec shorter than the map: the Vec's bytes,
\* followed by whatever the memory behind the allocation holds.
ReadPastEnd(b, fill) ==
    LET past == {a \in SiteAddresses : a >= b.len /\ fill # 0}
    IN  [len |-> SizeOf_AflppCmpLogMap,
         mem |-> [a \in (DOMAIN b.mem) \cup past |->
                     IF a \in DOMAIN b.mem THEN b.mem[a] ELSE fill]]

\* impl Deserialize for AflppCmpLogMap: Vec::<u8>::deserialize, then
\* ptr::read of size_of::<Self>() bytes from the Vec's buffer, whatever its
\* length.  Reading behind a shorter buffer is undefined: the read yields
\* the neighbouring memory, or the process dies.
AflppCmpLogMap_deserialize_outcomes(b) ==
    IF b.len >= SizeOf_AflppCmpLogMap
    THEN {[ret |-> Ok, map |-> AflppCmpLogMap_deserialize(b)]}
    ELSE {[ret |-> Ok, map |-> AflppCmpLogMap_deserialize(ReadPastEnd(b, fill))] :
             fill \in {0, 255}}
         \cup {[ret |-> Fault, map |-> None]}

CallDeserialize ==
    /\ Running
    /\ serialized # None
    /\ \E r \in AflppCmpLogMap_deserialize_outcomes(serialized) :
         /\ copy' = IF r.ret = Ok THEN r.map ELSE copy
         /\ last' = Call("deserialize", -1, -1, r.ret)
    /\ UNCHANGED <<fmt, headers, vals, nwrites, serialized, runVars, fnVars, rtVars>>

NextSerde ==
    \/ CallSerialize
    \/ Transport
    \/ CallDeserialize
    \/ CallReset

SpecSerde == InitSerde /\ [][NextSerde]_vars

(***************************************************************************)
(* C14: an AFL++ map that is serialized and then deserialized comes back   *)
(* with the same header at every site and the same record at every site    *)
(* and slot, read as operands and read as routine arguments.               *)
(***************************************************************************)
SameMap(c, hs, vs) ==
    /\ c.headers = hs
    /\ c.vals = vs
    /\ \A idx \in Sites :
          /\ AflppCmpLogHeader_hits(c.headers[idx]) = AflppCmpLogHeader_hits(hs[idx])
          /\ AflppCmpLogHeader_shape(c.headers[idx]) = AflppCmpLogHeader_shape(hs[idx])
          /\ AflppCmpLogHeader_type_(c.headers[idx]) = AflppCmpLogHeader_type_(hs[idx])
          /\ \A e \in {0, 1, CMPLOG_MAP_H - 1} :
                /\ AflppCmpLogOperands_at(c.vals[idx], e) = AflppCmpLogOperands_at(vs[idx], e)
                /\ AflppCmpLogFnOperands_at(c.vals[idx], e) = AflppCmpLogFnOperands_at(vs[idx], e)

C14_SerdeRoundTrip ==
    [][(last.op = "serialize" /\ last'.op = "deserialize") =>
           SameMap(copy', headers, vals)]_vars

\* A map with a routine record at its last site came back from its image.
C14_Witness ==
    /\ Returned("deserialize")
    /\ serialized = AflppCmpLogMap_serialize(headers, vals)
    /\ hits_of(CMPLOG_MAP_W - 1) = 12
    /\ AflppCmpLogHeader_hits(copy.headers[CMPLOG_MAP_W - 1]) = 12
    /\ AflppCmpLogFnOperands_at(copy.vals[CMPLOG_MAP_W - 1], 0)
          = AflppFnOperands(Hello, World, 133, 5, 0)

(***************************************************************************)
(* The harness protocol on one map: the target runs and records            *)
(* comparisons, returns, the consumer drains the map and resets it, and    *)
(* the next execution starts.  The recording hooks are external; they are  *)
(* modelled from their interface: each call counts one hit in the site's   *)
(* header, sets its kind and shape, and stores the record at the slot of   *)
(* the previous hit count; once the site's array is full the record is     *)
(* either dropped or stored over the slot of the hit count modulo the      *)
(* capacity.  A site keeps its kind for the length of an execution.        *)
(* `written` collects, per site, the payload offsets stored since the last *)
(* reset.                                                                  *)
(***************************************************************************)
MaxRecords == 2

\* <<width code, arg1, arg2, flag>>
RecordInstructionInputs == {<<0, U64_8, U64_10, 0>>, <<7, U64_A, U64_B, 1>>}

\* <<ptr1, ptr2>>
RecordRoutineInputs == {<<b_hello, b_world>>, <<BufUp, BufDown>>}

RecordSize(kind) ==
    IF fmt = Compact
    THEN IF kind = CMPLOG_KIND_INS THEN SizeOf_CmpLogInstruction ELSE SizeOf_CmpLogRoutine
    ELSE IF kind = CMPLOG_KIND_INS THEN SizeOf_AflppCmpLogOperands
                                   ELSE SizeOf_AflppCmpLogFnOperands

RecordCapacity(kind) ==
    IF kind = CMPLOG_KIND_INS THEN CMPLOG_MAP_H
    ELSE IF fmt = Compact THEN CMPLOG_MAP_RTN_H ELSE CMPLOG_MAP_RTN_EXTENDED_H

HeaderAfterHit(idx, shape, kind) ==
    IF fmt = Compact
    THEN CmpLogHeader((hits_of(idx) + 1) % 65536, shape, kind)
    ELSE AflppCmpLogHeader_pack((hits_of(idx) + 1) % 64, shape, kind, 0)

\* The stores of one record, as <<offset, bytes>> pairs.
InstructionStores(slot, w) ==
    IF fmt = Compact
    THEN {<<slot * SizeOf_CmpLogInstruction, w[2] \o w[3] \o <<w[4]>> >>}
    ELSE {<<slot * SizeOf_AflppCmpLogOperands, w[2]>>,
          <<slot * SizeOf_AflppCmpLogOperands + 32, w[3]>>}

RoutineStores(slot, w) ==
    IF fmt = Compact
    THEN {<<slot * SizeOf_CmpLogRoutine,
            Pad(w[1], CMPLOG_RTN_LEN) \o Pad(w[2], CMPLOG_RTN_LEN)>>}
    ELSE {<<slot * SizeOf_AflppCmpLogFnOperands,
            Pad(w[1], CMPLOG_RTN_LEN) \o Pad(w[2], CMPLOG_RTN_LEN)
                \o <<Len(w[1]), Len(w[2])>> >>}

RECURSIVE ApplyStores(_, _)
ApplyStores(m, stores) ==
    IF stores = {} THEN m
    ELSE LET st == CHOOSE x \in stores : TRUE
         IN  ApplyStores(WrBytes(m, st[1], st[2]), stores \ {st})

StoredOffsets(stores) ==
    UNION {st[1]..(st[1] + Len(st[2]) - 1) : st \in stores}

\* The memory that stores to pairwise disjoint places leave in a zeroed region.
MemOfStores(stores) ==
    LET at(o) == LET st == CHOOSE x \in stores : o \in x[1]..(x[1] + Len(x[2]) - 1)
                 IN  st[2][o - st[1] + 1]
        nz == {o \in StoredOffsets(stores) : at(o) # 0}
    IN  [o \in nz |-> at(o)]

\* The stores of the first n hits of a site that records w every time.
StoresOfHits(kind, n, w) ==
    UNION {IF kind = CMPLOG_KIND_INS THEN InstructionStores(slot, w)
                                     ELSE RoutineStores(slot, w) : slot \in 0..(n - 1)}

\* An execution starts on a fresh map; it is followed from its start, or
\* from the point where one hit is left before the array of site 0 is full.
InitRun ==
    /\ fmt \in {Compact, Wire}
    /\ \/ /\ headers = IF fmt = Compact THEN CmpLogMap_default_headers
                                         ELSE AflppCmpLogMap_boxed_headers
          /\ vals = ZeroVals
          /\ written = [idx \in Sites |-> {}]
       \/ \E kind \in {CMPLOG_KIND_INS, CMPLOG_KIND_RTN} :
             LET n == RecordCapacity(kind) - 1
                 w == IF kind = CMPLOG_KIND_INS THEN <<7, U64_A, U64_B, 1>>
                                                ELSE <<BufUp, BufDown>>
                 h == IF fmt = Compact
                      THEN CmpLogHeader(n, IF kind = CMPLOG_KIND_INS THEN 7 ELSE 0, kind)
                      ELSE AflppCmpLogHeader_pack(
                               n, IF kind = CMPLOG_KIND_INS THEN 7 ELSE 0, kind, 0)
             IN  /\ headers = [idx \in Sites |->
                                  IF idx = 0 THEN h
                                  ELSE IF fmt = Compact THEN CmpLogHeader(0, 0, 0)
                                  ELSE AflppCmpLogHeader_new_with_raw_value(0)]
                 /\ vals = [ZeroVals EXCEPT
                               ![0] = MemOfStores(StoresOfHits(kind, n, w))]
                 /\ written = [idx \in Sites |->
                                  IF idx = 0 THEN StoredOffsets(StoresOfHits(kind, n, w))
                                  ELSE {}]
    /\ last = Call("new", -1, -1, Unit)
    /\ nwrites = 0
    /\ phase = "run"
    /\ SerdeIdle /\ FnIdle /\ RtIdle

\* The slot of the next record of a site.
SlotOfHit(idx, kind) == hits_of(idx) % RecordCapacity(kind)

\* One hit at site idx; stores are the stores of the record at SlotOfHit.
Record(idx, shape, kind, stores, op) ==
    LET full == hits_of(idx) >= RecordCapacity(kind)
    IN  /\ hits_of(idx) = 0 \/ kind_of(idx) = kind
        /\ headers' = [headers EXCEPT ![idx] = HeaderAfterHit(idx, shape, kind)]
        /\ \E overwrite \in BOOLEAN :
              LET skip == full /\ ~overwrite
              IN  /\ vals' = [vals EXCEPT
                                 ![idx] = IF skip THEN @ ELSE ApplyStores(@, stores)]
                  /\ written' = [written EXCEPT
                                    ![idx] = IF skip THEN @
                                             ELSE @ \cup StoredOffsets(stores)]
                  /\ last' = Call(op, idx, IF skip THEN -1 ELSE SlotOfHit(idx, kind), Unit)

RecordInstruction ==
    /\ phase = "run"
    /\ nwrites < MaxRecords
    /\ \E idx \in Sites, w \in RecordInstructionInputs :
         Record(idx, w[1], CMPLOG_KIND_INS,
                InstructionStores(SlotOfHit(idx, CMPLOG_KIND_INS), w), "record_instruction")
    /\ nwrites' = nwrites + 1
    /\ UNCHANGED <<fmt, phase, serdeVars, fnVars, rtVars>>

RecordRoutine ==
    /\ phase = "run"
    /\ nwrites < MaxRecords
    /\ \E idx \in Sites, w \in RecordRoutineInputs :
         Record(idx, 0, CMPLOG_KIND_RTN,
                RoutineStores(SlotOfHit(idx, CMPLOG_KIND_RTN), w), "record_routine")
    /\ nwrites' = nwrites + 1
    /\ UNCHANGED <<fmt, phase, serdeVars, fnVars, rtVars>>

\* The execution of the target has returned; the consumer may read.
RunReturns ==
    /\ phase = "run"
    /\ phase' = "drain"
    /\ last' = Call("run", -1, -1, Unit)
    /\ UNCHANGED <<fmt, headers, vals, nwrites, written, serdeVars, fnVars, rtVars>>

\* The consumer asks for the slots below usable_executions_for only; the
\* first and the last of them are followed.
DrainValuesOf ==
    /\ phase = "drain"
    /\ Running
    /\ \E idx \in Sites :
         \E execution \in {0, usable_executions_for(idx) - 1}
                              \cap (0..(usable_executions_for(idx) - 1)) :
            last' = Call("values_of", idx, execution, values_of(idx, execution))
    /\ UNCHANGED <<fmt, headers, vals, nwrites, runVars, serdeVars, fnVars, rtVars>>

DrainReset ==
    /\ phase = "drain"
    /\ Running
    /\ headers' = IF fmt = Compact THEN CmpLogMap_reset(headers)
                                   ELSE AflppCmpLogMap_reset(headers)
    /\ last' = Call("reset", -1, -1, Ok)
    /\ phase' = "run"
    /\ written' = [idx \in Sites |-> {}]
    /\ UNCHANGED <<fmt, vals, nwrites, serdeVars, fnVars, rtVars>>

NextRun ==
    \/ RecordInstruction
    \/ RecordRoutine
    \/ RunReturns
    \/ DrainValuesOf
    \/ DrainReset

SpecRun == InitRun /\ [][NextRun]_vars

(***************************************************************************)
(* C13: under the alternation run, drain, reset, what the consumer can     *)
(* decode during a drain (any slot below usable_executions_for of any      *)
(* site, under the site's kind) is made of bytes stored during the current *)
(* run only: the decoded value stays the same whatever the bytes that were *)
(* not stored during this run are replaced with.                           *)
(***************************************************************************)
\* The record at a slot, with every byte that is not in wr replaced by fill.
Replaced(m, wr, slot, size, fill) ==
    [o \in (slot * size)..(slot * size + size - 1) |->
        IF o \in wr THEN Rd(m, o) ELSE fill]

ValuesOfIn(vs, idx, execution) ==
    IF fmt = Compact THEN CmpLogMap_values_of(headers, vs, idx, execution)
                     ELSE AflppCmpLogMap_values_of(headers, vs, idx, execution)

MaxFilters == 2

Some(e) == [tag |-> "Some", e |-> e]

RSymExprs == {1, 2}

OptExprs == {None} \cup {Some(e) : e \in RSymExprs}

\* Floating-point methods by parameter list: (a: RSymExpr, b: RSymExpr),
FloatBinaryOps ==
    {"build_float_ordered", "build_float_ordered_equal",
     "build_float_ordered_greater_equal", "build_float_ordered_greater_than",
     "build_float_ordered_less_equal", "build_float_ordered_less_than",
     "build_float_ordered_not_equal",
     "build_float_unordered", "build_float_unordered_equal",
     "build_float_unordered_greater_equal", "build_float_unordered_greater_than",
     "build_float_unordered_less_equal", "build_float_unordered_less_than",
     "build_float_unordered_not_equal",
     "build_fp_add", "build_fp_sub", "build_fp_mul", "build_fp_div", "build_fp_rem"}

\* (expr: RSymExpr),
FloatUnaryOps == {"build_float_to_bits", "build_fp_abs", "build_fp_neg"}

\* (expr: RSymExpr, to_double: bool),
FloatToDoubleOps == {"build_float_to_float", "build_bits_to_float"}

\* (expr: RSymExpr, bits: u8),
FloatToIntegerOps == {"build_float_to_signed_integer", "build_float_to_unsigned_integer"}

\* (value: RSymExpr, is_double: bool, is_signed: bool); build_float itself
\* takes (value: f64, is_double: bool).
IntToFloatOps == {"build_int_to_float"}

FloatExprOps ==
    FloatBinaryOps \cup FloatUnaryOps \cup FloatToDoubleOps
        \cup FloatToIntegerOps \cup IntToFloatOps

\* Methods that create an expression (they return Option<RSymExpr>).
ExprOps ==
    {"get_input_byte", "build_udiv", "build_float", "backend_read_memory"}
        \cup FloatExprOps

\* Methods without a result for which a filter answers with a bool.
FilteredVoidOps ==
    {"push_path_constraint", "backend_write_memory",
     "backend_memcpy", "backend_memmove", "backend_memset"}

\* Methods without a result that a filter only observes.
NotifyOps == {"notify_ret_expr", "notify_param_expr"}

\* The i-th filter type named in an export_runtime! invocation.
FilterName(i) == <<"F1", "F2", "F3", "F4">>[i]

\* What a runtime other than NopRuntime may answer to an expression.
ExprResults == {None, Some(3)}

Event(layer, kind, who, op, args, out) ==
    [layer |-> layer, kind |-> kind, who |-> who, op |-> op, args |-> args, out |-> out]

\* Mutant: backend_read_memory concretizes like every other method.
NopRuntime_call_M(op, args) ==
    IF op \in ExprOps THEN None ELSE Unit

\* impl Runtime for NopRuntime (impl_nop_runtime_fn)
NopRuntime_call(op, args) ==
    IF op = "backend_read_memory" THEN args[2]
    ELSE IF op \in ExprOps THEN None
    ELSE Unit

\* The methods that impl Filter for NoFloat overrides.
NoFloat_methods ==
    {"build_float", "build_float_ordered", "build_float_ordered_equal",
     "build_float_ordered_greater_equal", "build_float_ordered_greater_than",
     "build_float_ordered_less_equal", "build_float_ordered_less_than",
     "build_float_ordered_not_equal", "build_float_to_bits",
     "build_float_to_float", "build_float_to_signed_integer",
     "build_float_to_unsigned_integer", "build_float_unordered",
     "build_float_unordered_equal", "build_float_unordered_greater_equal",
     "build_float_unordered_greater_than", "build_float_unordered_less_equal",
     "build_float_unordered_less_than", "build_float_unordered_not_equal",
     "build_int_to_float", "build_bits_to_float", "build_fp_abs",
     "build_fp_add", "build_fp_sub", "build_fp_mul", "build_fp_div",
     "build_fp_rem", "build_fp_neg"}

\* Mutant: the override of build_fp_neg is missing.
NoFloat_call_M(op) ==
    IF op \in NoFloat_methods \ {"build_fp_neg"} THEN FALSE
    ELSE IF op \in ExprOps \cup FilteredVoidOps THEN TRUE
    ELSE Unit

\* impl Filter for NoFloat: the overridden methods return false, the others
\* are the defaults of the trait.
NoFloat_call(op) ==
    IF op \in NoFloat_methods THEN FALSE
    ELSE IF op \in ExprOps \cup FilteredVoidOps THEN TRUE
    ELSE Unit

\* A filter's answer for the operation, if it is asked: NoFloat, or a user's
\* impl Filter.
Filter_call(f, op, args, answers) ==
    IF f = "NoFloat" THEN NoFloat_call(op)
    ELSE IF op \in ExprOps \cup FilteredVoidOps THEN answers[f] ELSE Unit

\* Mutant: the inner runtime is called first and its result is dropped when
\* the filter says no.
FilterRuntime_expr_M(op, args, answer, inner) ==
    IF answer
    THEN inner
    ELSE [ret |-> IF op = "backend_read_memory" THEN args[2] ELSE None,
          calls |-> inner.calls]

\* FilterRuntime: the arms for the methods that return an expression;
\* inner is the call of self.runtime.
FilterRuntime_expr(op, args, answer, inner) ==
    IF answer
    THEN inner
    ELSE [ret |-> IF op = "backend_read_memory" THEN args[2] ELSE None,
          calls |-> <<>>]

\* Mutant: the inner runtime is called whatever the filter answered.
FilterRuntime_void_M(answer, inner) ==
    inner

\* FilterRuntime: push_path_constraint, backend_write_memory, backend_memcpy,
\* backend_memmove, backend_memset.
FilterRuntime_void(answer, inner) ==
    IF answer THEN inner ELSE [ret |-> Unit, calls |-> <<>>]

\* Mutant: with a runtime inside, the call is forwarded but an expression
\* that the runtime returns is dropped.
OptionalRuntime_call_M(op, args, inner, forwarded) ==
    IF inner # None
    THEN [ret |-> IF op \in ExprOps THEN None ELSE Unit, calls |-> forwarded.calls]
    ELSE [ret |-> IF op = "backend_read_memory" THEN args[2]
                  ELSE IF op \in ExprOps THEN None
                  ELSE Unit,
          calls |-> <<>>]

\* impl Runtime for OptionalRuntime: with `if let Some(inner)` the method of
\* inner is called (forwarded) and its result returned; otherwise nothing is
\* called, and the result is None, or concolic_read_value for
\* backend_read_memory.
OptionalRuntime_call(op, args, inner, forwarded) ==
    IF inner # None
    THEN forwarded
    ELSE [ret |-> IF op = "backend_read_memory" THEN args[2]
                  ELSE IF op \in ExprOps THEN None
                  ELSE Unit,
          calls |-> <<>>]

OptionalRuntime_new(rt) ==
    [tag |-> "OptionalRuntime", inner |-> rt]

FilterRuntime_new(filter, runtime) ==
    [tag |-> "FilterRuntime", filter |-> filter, runtime |-> runtime]

RECURSIVE Runtime_call(_, _, _, _, _, _)
\* rt.op(args), where rt is at the given layer of the exported runtime.
Runtime_call(rt, layer, op, args, answers, rtret) ==
    LET ev(out) == Event(layer, "runtime", rt.tag, op, args, out)
    IN  CASE rt.tag = "NopRuntime" ->
               [ret |-> NopRuntime_call(op, args),
                calls |-> <<ev(NopRuntime_call(op, args))>>]
          [] rt.tag = "Runtime" ->
               LET out == IF op \in ExprOps THEN rtret ELSE Unit
               IN  [ret |-> out, calls |-> <<ev(out)>>]
          [] rt.tag = "FilterRuntime" ->
               LET inner == Runtime_call(rt.runtime, layer + 1, op, args, answers, rtret)
                   answer == Filter_call(rt.filter, op, args, answers)
                   fev == Event(layer, "filter", rt.filter, op, args, answer)
                   res == CASE op = "expression_unreachable" -> inner
                            [] op \in ExprOps ->
                                 LET r == FilterRuntime_expr(op, args, answer, inner)
                                 IN  [ret |-> r.ret, calls |-> <<fev>> \o r.calls]
                            [] op \in FilteredVoidOps ->
                                 LET r == FilterRuntime_void(answer, inner)
                                 IN  [ret |-> r.ret, calls |-> <<fev>> \o r.calls]
                            [] OTHER ->
                                 [ret |-> inner.ret, calls |-> <<fev>> \o inner.calls]
               IN  [ret |-> res.ret, calls |-> <<ev(res.ret)>> \o res.calls]
          [] rt.tag = "OptionalRuntime" ->
               LET forwarded == Runtime_call(rt.inner.e, layer + 1, op, args, answers, rtret)
                   res == OptionalRuntime_call(op, args, rt.inner, forwarded)
               IN  [ret |-> res.ret, calls |-> <<ev(res.ret)>> \o res.calls]

\* The constructor expressions of a final runtime that are followed.
FinalRuntimes ==
    {"NopRuntime", "Runtime", "OptionalRuntime::new(None)",
     "OptionalRuntime::new(Some(NopRuntime))", "OptionalRuntime::new(Some(Runtime))"}

\* The runtime that a constructor expression builds.
Runtime_new(constructor) ==
    CASE constructor = "OptionalRuntime::new(None)" -> OptionalRuntime_new(None)
      [] constructor = "OptionalRuntime::new(Some(NopRuntime))" ->
           OptionalRuntime_new(Some([tag |-> "NopRuntime"]))
      [] constructor = "OptionalRuntime::new(Some(Runtime))" ->
           OptionalRuntime_new(Some([tag |-> "Runtime"]))
      [] OTHER -> [tag |-> constructor]

\* Mutant: the constructors are wrapped from the right, so the filter named
\* last ends up outermost.
export_runtime_M(list) ==
    LET n == Len(list) - 1
        RECURSIVE wrap(_)
        wrap(i) == IF i > n THEN Runtime_new(list[n + 1])
                   ELSE FilterRuntime_new(list[n + 1 - i], wrap(i + 1))
    IN  wrap(1)

\* export_runtime!(F1 => ..; ...; Fn => ..; RT => ..): @combine_constructor.
export_runtime(list) ==
    LET n == Len(list) - 1
        RECURSIVE wrap(_)
        wrap(i) == IF i > n THEN Runtime_new(list[n + 1])
                   ELSE FilterRuntime_new(list[i], wrap(i + 1))
    IN  wrap(1)

\* The invocations of export_runtime! that are followed: chains of user
\* filters, in which at most one position (nofloat) is a NoFloat.
ExportLists ==
    {[i \in 1..(n + 1) |-> IF i = n + 1 THEN final
                           ELSE IF i = nofloat THEN "NoFloat"
                           ELSE FilterName(i)] :
        n \in 0..MaxFilters, nofloat \in 0..MaxFilters,
        final \in FinalRuntimes}

\* The arguments the instrumented program passes to an exported function;
\* an expression argument is None where the value is concrete.
ArgsOf(op) ==
    CASE op = "get_input_byte" -> {<<0, 65>>, <<1, 66>>}
      [] op = "build_float" -> {<<0, TRUE>>, <<1, FALSE>>}
      [] op = "build_udiv" -> OptExprs \X OptExprs
      [] op \in FloatBinaryOps -> {<<Some(1), Some(2)>>, <<None, Some(1)>>}
      [] op \in FloatUnaryOps -> {<<Some(1)>>, <<None>>}
      [] op \in FloatToDoubleOps -> {<<Some(2), TRUE>>, <<None, FALSE>>}
      [] op \in FloatToIntegerOps -> {<<Some(1), 32>>, <<None, 64>>}
      [] op \in IntToFloatOps -> {<<Some(2), TRUE, FALSE>>, <<None, FALSE, TRUE>>}
      [] op = "backend_read_memory" -> OptExprs \X OptExprs
      [] op = "push_path_constraint" -> {<<None, TRUE>>, <<Some(1), TRUE>>, <<Some(2), FALSE>>}
      [] op = "backend_write_memory" -> {<<None, Some(1)>>, <<Some(1), Some(2)>>}
      [] op = "backend_memcpy" -> {<<None, None, None>>, <<Some(1), Some(2), None>>}
      [] op = "backend_memmove" -> {<<None, Some(1), None>>, <<Some(2), Some(1), Some(1)>>}
      [] op = "backend_memset" -> {<<None, None, Some(2)>>, <<Some(1), None, None>>}
      [] op = "notify_ret_expr" -> {<<None>>, <<Some(1)>>}
      [] op = "notify_param_expr" -> {<<0, None>>, <<1, Some(2)>>}
      [] op = "expression_unreachable" -> {<<1, 2>>}

\* The parameters of an exported function that the function unwraps before
\* it calls the runtime (unwrap_option!, or `if let Some(expr)`).
UnwrappedParams(op) ==
    CASE op \in {"build_udiv"} \cup FloatBinaryOps -> {1, 2}
      [] op \in FloatUnaryOps \cup FloatToDoubleOps \cup FloatToIntegerOps
                 \cup IntToFloatOps -> {1}
      [] op \in {"push_path_constraint", "notify_ret_expr"} -> {1}
      [] op = "notify_param_expr" -> {2}
      [] OTHER -> {}

\* export_rust_runtime_fn: does the exported function reach the runtime?
\* An RSymExpr parameter of a generic method is unwrapped with `?`, and
\* push_path_constraint / notify_ret_expr / notify_param_expr need their
\* expression.
Forwarded(op, args) ==
    \A i \in UnwrappedParams(op) : args[i] # None

\* The arguments as the runtime receives them.
Unwrapped(op, args) ==
    [i \in DOMAIN args |-> IF i \in UnwrappedParams(op) THEN args[i].e ELSE args[i]]

InitRt ==
    /\ fmt = Compact
    /\ headers = CmpLogMap_default_headers
    /\ vals = ZeroVals
    /\ nwrites = 0
    /\ RunIdle /\ SerdeIdle /\ FnIdle
    /\ \E list \in ExportLists :
         /\ GLOBAL_DATA = export_runtime(list)
         /\ last = FnCall("init", list, Unit)
    /\ trace = <<>>

\* One exported function _rsym_<op>, called through with_state.
Exported(op, args, answers, rtret) ==
    LET r == Runtime_call(GLOBAL_DATA, 1, op, Unwrapped(op, args), answers, rtret)
    IN  /\ trace' = IF Forwarded(op, args) THEN r.calls ELSE <<>>
        /\ last' = FnCall(op, args,
                          IF Forwarded(op, args) THEN r.ret
                          ELSE IF op \in ExprOps THEN None ELSE Unit)
        /\ UNCHANGED <<fmt, headers, vals, nwrites, GLOBAL_DATA, runVars, serdeVars, fnVars>>

RECURSIVE FiltersOf(_)
\* The user's filters in a runtime.
FiltersOf(rt) ==
    IF rt.tag = "FilterRuntime"
    THEN ({rt.filter} \ {"NoFloat"}) \cup FiltersOf(rt.runtime)
    ELSE {}

RECURSIVE FinalOf(_)
\* The runtime that a runtime's layers end in.
FinalOf(rt) ==
    CASE rt.tag = "FilterRuntime" -> FinalOf(rt.runtime)
      [] rt.tag = "OptionalRuntime" /\ rt.inner # None -> FinalOf(rt.inner.e)
      [] OTHER -> rt

\* What the filters of the exported runtime would answer, if asked.
Answers == [FiltersOf(GLOBAL_DATA) -> BOOLEAN]

\* What the final runtime would answer to an expression, if it is one that
\* builds expressions.
RuntimeResults ==
    IF FinalOf(GLOBAL_DATA).tag = "Runtime" THEN ExprResults ELSE {None}

GetInputByte ==
    /\ GLOBAL_DATA # None
    /\ \E args \in ArgsOf("get_input_byte"), answers \in Answers, rtret \in RuntimeResults :
         Exported("get_input_byte", args, answers, rtret)

BuildUdiv ==
    /\ GLOBAL_DATA # None
    /\ \E args \in ArgsOf("build_udiv"), answers \in Answers, rtret \in RuntimeResults :
         Exported("build_udiv", args, answers, rtret)

BuildFloat ==
    /\ GLOBAL_DATA # None
    /\ \E args \in ArgsOf("build_float"), answers \in Answers, rtret \in RuntimeResults :
         Exported("build_float", args, answers, rtret)

BackendReadMemory ==
    /\ GLOBAL_DATA # None
    /\ \E args \in ArgsOf("backend_read_memory"), answers \in Answers, rtret \in RuntimeResults :
         Exported("backend_read_memory", args, answers, rtret)

PushPathConstraint ==
    /\ GLOBAL_DATA # None
    /\ \E args \in ArgsOf("push_path_constraint"), answers \in Answers, rtret \in RuntimeResults :
         Exported("push_path_constraint", args, answers, rtret)

BackendWriteMemory ==
    /\ GLOBAL_DATA # None
    /\ \E args \in ArgsOf("backend_write_memory"), answers \in Answers, rtret \in RuntimeResults :
         Exported("backend_write_memory", args, answers, rtret)

NotifyRetExpr ==
    /\ GLOBAL_DATA # None
    /\ \E args \in ArgsOf("notify_ret_expr"), answers \in Answers, rtret \in RuntimeResults :
         Exported("notify_ret_expr", args, answers, rtret)

ExpressionUnreachable ==
    /\ GLOBAL_DATA # None
    /\ \E args \in ArgsOf("expression_unreachable"), answers \in Answers, rtret \in RuntimeResults :
         Exported("expression_unreachable", args, answers, rtret)

BackendMemcpy ==
    /\ GLOBAL_DATA # None
    /\ \E args \in ArgsOf("backend_memcpy"), answers \in Answers, rtret \in RuntimeResults :
         Exported("backend_memcpy", args, answers, rtret)

BackendMemmove ==
    /\ GLOBAL_DATA # None
    /\ \E args \in ArgsOf("backend_memmove"), answers \in Answers, rtret \in RuntimeResults :
         Exported("backend_memmove", args, answers, rtret)

BackendMemset ==
    /\ GLOBAL_DATA # None
    /\ \E args \in ArgsOf("backend_memset"), answers \in Answers, rtret \in RuntimeResults :
         Exported("backend_memset", args, answers, rtret)

NotifyParamExpr ==
    /\ GLOBAL_DATA # None
    /\ \E args \in ArgsOf("notify_param_expr"), answers \in Answers, rtret \in RuntimeResults :
         Exported("notify_param_expr", args, answers, rtret)

BuildFloatingPoint ==
    /\ GLOBAL_DATA # None
    /\ \E op \in FloatExprOps :
         \E args \in ArgsOf(op), answers \in Answers, rtret \in RuntimeResults :
             Exported(op, args, answers, rtret)

NextRt ==
    \/ GetInputByte
    \/ BuildUdiv
    \/ BuildFloat
    \/ BackendReadMemory
    \/ PushPathConstraint
    \/ BackendWriteMemory
    \/ NotifyRetExpr
    \/ ExpressionUnreachable
    \/ BackendMemcpy
    \/ BackendMemmove
    \/ BackendMemset
    \/ NotifyParamExpr
    \/ BuildFloatingPoint

SpecRt == InitRt /\ [][NextRt]_vars

\* The positions in trace of the events of one kind at one layer.
EventsAt(kind, layer) ==
    {j \in DOMAIN trace : trace[j].kind = kind /\ trace[j].layer = layer}

\* What a FilterRuntime returns for an expression when its filter says no.
Concretized(op, args) ==
    IF op = "backend_read_memory" THEN args[2] ELSE None

\* C18: in a FilterRuntime, for every expression-creating operation: the
\* filter is asked once with the operation's arguments; if it returns false
\* the inner runtime's method is not invoked and the result is None (for
\* backend_read_memory: the concolic_read_value it was given); if it returns
\* true the inner runtime's method is invoked exactly once with the same
\* arguments and its result is returned unchanged.
C18_FilterRuntimeForwards ==
    \A i \in DOMAIN trace :
        LET r == trace[i]
            asked == EventsAt("filter", r.layer)
            inner == EventsAt("runtime", r.layer + 1)
        IN  (r.kind = "runtime" /\ r.who = "FilterRuntime" /\ r.op \in ExprOps) =>
                /\ Cardinality(asked) = 1
                /\ \A j \in asked :
                     /\ trace[j].op = r.op
                     /\ trace[j].args = r.args
                     /\ IF trace[j].out
                        THEN /\ Cardinality(inner) = 1
                             /\ \A k \in inner :
                                  /\ trace[k].op = r.op
                                  /\ trace[k].args = r.args
                                  /\ r.out = trace[k].out
                        ELSE /\ inner = {}
                             /\ r.out = Concretized(r.op, r.args)

\* A filter refused a backend_read_memory that carried an expression, and a
\* filter let a build_udiv through to a runtime that answered Some(3).
C18_Witness ==
    /\ GLOBAL_DATA.tag = "FilterRuntime"
    /\ \/ /\ last.op = "backend_read_memory"
          /\ last.args[2] = Some(1)
          /\ Len(trace) = 2
          /\ trace[2].kind = "filter" /\ trace[2].out = FALSE
          /\ last.ret = Some(1)
       \/ /\ last.op = "build_udiv"
          /\ Len(trace) = 3
          /\ trace[2].kind = "filter" /\ trace[2].out = TRUE
          /\ trace[3].who = "Runtime" /\ trace[3].out = Some(3)
          /\ last.ret = Some(3)

\* The export_runtime! invocation that built the exported runtime.
ExportedList ==
    CHOOSE list \in ExportLists : export_runtime(list) = GLOBAL_DATA

\* Filter k of the invocation was asked about the current operation.
Consulted(k) ==
    \E j \in DOMAIN trace : trace[j].kind = "filter" /\ trace[j].who = ExportedList[k]

\* Filter k of the invocation was asked and returned true.
ReturnedTrue(k) ==
    \E j \in DOMAIN trace :
        trace[j].kind = "filter" /\ trace[j].who = ExportedList[k] /\ trace[j].out = TRUE

\* The final runtime of the invocation received the current operation.
FinalReceived ==
    \E j \in DOMAIN trace :
        /\ trace[j].kind = "runtime"
        /\ trace[j].who = Runtime_new(ExportedList[Len(ExportedList)]).tag
        /\ trace[j].op = last.op

\* C19: in a runtime exported with export_runtime!(F1 => ..; ...; RT => ..),
\* for every expression-creating operation that reaches the runtime, filter
\* Fk is asked exactly when F1..F(k-1) all returned true, the filters are
\* asked from left to right, and RT receives the operation if and only if
\* every filter of the chain returned true.
C19_FiltersLeftToRight ==
    LET n == Len(ExportedList) - 1
    IN  (last.op \in ExprOps /\ Forwarded(last.op, last.args)) =>
            /\ \A k \in 1..n : Consulted(k) <=> (\A m \in 1..(k - 1) : ReturnedTrue(m))
            /\ \A j1, j2 \in DOMAIN trace :
                 (j1 < j2 /\ trace[j1].kind = "filter" /\ trace[j2].kind = "filter") =>
                     \E k1, k2 \in 1..n :
                         /\ k1 < k2
                         /\ trace[j1].who = ExportedList[k1]
                         /\ trace[j2].who = ExportedList[k2]
            /\ FinalReceived <=> (\A k \in 1..n : ReturnedTrue(k))

\* With two filters: the first let a get_input_byte pass, the second refused
\* it, and the final runtime never saw it.
C19_Witness ==
    /\ Len(ExportedList) = 3
    /\ last.op = "get_input_byte"
    /\ ReturnedTrue(1)
    /\ Consulted(2) /\ ~ReturnedTrue(2)
    /\ ~FinalReceived
    /\ last.ret = None

C27_NonExpressionOperations ==
    \A i \in DOMAIN trace :
        LET r == trace[i]
            asked == EventsAt("filter", r.layer)
            inner == EventsAt("runtime", r.layer + 1)
            same(j) == trace[j].op = r.op /\ trace[j].args = r.args
        IN  (r.kind = "runtime" /\ r.who = "FilterRuntime" /\ r.op \notin ExprOps) =>
                /\ r.op \in NotifyOps \cup FilteredVoidOps \cup {"expression_unreachable"}
                /\ r.op \in NotifyOps =>
                     /\ Cardinality(asked) = 1
                     /\ Cardinality(inner) = 1
                     /\ \A j \in asked, k \in inner : j < k /\ same(j) /\ same(k)
                /\ r.op \in FilteredVoidOps =>
                     /\ Cardinality(asked) = 1
                     /\ \A j \in asked :
                          /\ same(j)
                          /\ IF trace[j].out
                             THEN Cardinality(inner) = 1 /\ \A k \in inner : j < k /\ same(k)
                             ELSE inner = {}
                /\ r.op = "expression_unreachable" =>
                     /\ asked = {}
                     /\ Cardinality(inner) = 1
                     /\ \A k \in inner : same(k)

\* Behind one filter: a backend_memset the filter refused, which the runtime
\* never saw; a notify_param_expr that filter and runtime both saw; and an
\* expression_unreachable that only the runtime saw.
C27_Witness ==
    /\ GLOBAL_DATA.tag = "FilterRuntime"
    /\ GLOBAL_DATA.runtime.tag = "Runtime"
    /\ \/ /\ last.op = "backend_memset"
          /\ Len(trace) = 2
          /\ trace[2].kind = "filter" /\ trace[2].out = FALSE
       \/ /\ last.op = "notify_param_expr"
          /\ Len(trace) = 3
          /\ trace[2].kind = "filter" /\ trace[3].who = "Runtime"
       \/ /\ last.op = "expression_unreachable"
          /\ Len(trace) = 2
          /\ trace[2].who = "Runtime"

\* The runtime at a layer of the exported runtime; layer 1 is the outermost.
RuntimeAt(layer) ==
    LET RECURSIVE down(_, _)
        down(rt, k) == IF k = 1 THEN rt ELSE down(rt.runtime, k - 1)
    IN  down(GLOBAL_DATA, layer)

\* The floating-point operations: build_float*, build_fp_*,
\* build_int_to_float, build_bits_to_float, build_float_to_*.
FloatingPointOps == {"build_float"} \cup FloatExprOps

\* C22: where a FilterRuntime's filter is NoFloat, a floating-point
\* operation returns None and invokes nothing behind the filter, neither the
\* inner runtime nor anything the inner runtime wraps; every other operation
\* is given to the inner runtime once, with the same arguments, and what the
\* inner runtime returns is returned unchanged.
C22_NoFloatConcretizesFloats ==
    \A i \in DOMAIN trace :
        LET r == trace[i]
            inner == EventsAt("runtime", r.layer + 1)
        IN  (r.kind = "runtime" /\ r.who = "FilterRuntime"
                /\ RuntimeAt(r.layer).filter = "NoFloat") =>
                IF r.op \in FloatingPointOps
                THEN /\ r.out = None
                     /\ \A j \in DOMAIN trace : trace[j].layer <= r.layer
                ELSE /\ Cardinality(inner) = 1
                     /\ \A k \in inner :
                          /\ trace[k].op = r.op
                          /\ trace[k].args = r.args
                          /\ trace[k].out = r.out

\* NoFloat in front of a runtime that answers Some(3): a build_fp_neg of an
\* expression came back None and the runtime was not invoked.
C22_Witness ==
    /\ GLOBAL_DATA.tag = "FilterRuntime"
    /\ GLOBAL_DATA.filter = "NoFloat"
    /\ GLOBAL_DATA.runtime.tag = "Runtime"
    /\ last.op = "build_fp_neg"
    /\ last.args = <<Some(1)>>
    /\ last.ret = None
    /\ Len(trace) = 2
    /\ trace[2].kind = "filter" /\ trace[2].out = FALSE

\* The runtime inside the OptionalRuntime at a layer: None or Some(rt).
InnerAt(layer) == RuntimeAt(layer).inner

ValidShapes == {0, 1, 3, 7, 15, 31, 63}

\* The slots of a site's usable range that are decoded to check it: the
\* first ones and the last one.
UsableProbes(idx) ==
    {slot \in ReadSlots \cup {usable_executions_for(idx) - 1} :
        0 <= slot /\ slot < usable_executions_for(idx)}

\* C23: in both maps, for every site and header content, every slot below
\* usable_executions_for(site) is an index of the payload array values_of
\* reads for the site's kind, so decoding it is never out of bounds: if
\* values_of aborts there, it is for an invalid instruction shape.
C23_UsableSlotsInBounds ==
    /\ \A idx \in Sites :
         /\ \A slot \in 0..(usable_executions_for(idx) - 1) : slot < capacity_for(idx)
         /\ \A slot \in UsableProbes(idx) :
              values_of(idx, slot) = Panic =>
                 (kind_of(idx) = CMPLOG_KIND_INS /\ shape_of(idx) \notin ValidShapes)
    /\ (Returned("values_of") /\ last.execution < usable_executions_for(last.idx)
                              /\ last.ret = Panic) =>
         (kind_of(last.idx) = CMPLOG_KIND_INS /\ shape_of(last.idx) \notin ValidShapes)

\* A routine site hit more often than it has slots, decoded at a usable slot.
C23_Witness ==
    /\ Returned("values_of")
    /\ kind_of(last.idx) # CMPLOG_KIND_INS
    /\ hits_of(last.idx) > capacity_for(last.idx)
    /\ last.execution = 1
    /\ last.execution < usable_executions_for(last.idx)
    /\ last.ret.tag = "Bytes"

\* C24: in both maps executions_for(site) is the header's hit counter as it
\* stands, not clamped, and usable_executions_for(site) <= executions_for(site)
\* for every site in every state.
C24_ExecutionsForIsRaw ==
    /\ \A idx \in Sites :
         /\ executions_for(idx) = hits_of(idx)
         /\ usable_executions_for(idx) <= executions_for(idx)
    /\ Returned("executions_for") => last.ret = Usize(hits_of(last.idx))

\* executions_for returned more than the site has slots.
C24_Witness ==
    /\ Returned("executions_for")
    /\ last.ret.n > capacity_for(last.idx)
    /\ usable_executions_for(last.idx) < last.ret.n

\* The headers with the shape of one site replaced.
WithShape(idx, shape) ==
    IF fmt = Compact
    THEN [headers EXCEPT ![idx] = CmpLogHeader(@.hits, shape, @.kind)]
    ELSE [headers EXCEPT ![idx] = @ - 64 * AflppCmpLogHeader_shape(@) + 64 * shape]

ValuesOfWith(hs, vs, idx, execution) ==
    IF fmt = Compact THEN CmpLogMap_values_of(hs, vs, idx, execution)
                     ELSE AflppCmpLogMap_values_of(hs, vs, idx, execution)

\* C28: in both maps, values_of on a site whose kind is not INSTRUCTION
\* does not look at the site's shape: for a slot of the routine array it
\* returns Some(Bytes(..)), neither None nor a panic, whatever the shape
\* (5 and 15 included), and for every slot the result is the same as with
\* any other shape in the header.
C28_RoutineDecodeIgnoresShape ==
    /\ (Returned("values_of") /\ kind_of(last.idx) # CMPLOG_KIND_INS
                              /\ last.execution < capacity_for(last.idx)) =>
          last.ret.tag = "Bytes"
    /\ (Returned("values_of") /\ kind_of(last.idx) # CMPLOG_KIND_INS) =>
          \A shape \in {0, 5, 15, 31} :
             ValuesOfWith(WithShape(last.idx, shape), vals, last.idx, last.execution) =
                last.ret

\* A routine site of shape 5 was decoded.
C28_Witness ==
    /\ Returned("values_of")
    /\ kind_of(last.idx) # CMPLOG_KIND_INS
    /\ shape_of(last.idx) = 5
    /\ last.execution < usable_executions_for(last.idx)
    /\ last.ret.tag = "Bytes"

\* C29: for every routine record of the AflppCmpLogMap, each operand length
\* returned by values_of is at most CMPLOG_RTN_LEN (32), the size of the
\* buffer it describes.
C29_RoutineLengthsWithinBuffer ==
    (fmt = Wire /\ Returned("values_of") /\ last.ret.tag = "Bytes") =>
        /\ last.ret.b0.len <= CMPLOG_RTN_LEN
        /\ last.ret.b1.len <= CMPLOG_RTN_LEN

\* Eight bytes of one value.
Limb(fill) == [i \in 1..8 |-> fill]

\* Another AflppCmpLogMap payload that agrees with vals only on the low
\* limbs v0 and v1 of one slot of one site: the high limbs and the padding
\* of that slot, the next slot and the other sites hold `fill`.
OnlyLowLimbs(idx, execution, fill) ==
    LET r == AflppCmpLogOperands_at(vals[idx], execution)
        other == AflppOperands(Limb(fill), Limb(fill), Limb(fill), Limb(fill),
                               Limb(fill), Limb(fill))
        kept == AflppOperands(r.v0, Limb(fill), r.v1, Limb(fill), Limb(fill), Limb(fill))
        next == (execution + 1) % CMPLOG_MAP_H
    IN  [j \in Sites |->
            IF j = idx
            THEN AflppCmpLogOperands_store(
                     AflppCmpLogOperands_store(ZeroMem, next, other), execution, kept)
            ELSE AflppCmpLogOperands_store(ZeroMem, execution, other)]

\* Other headers that agree with headers only on one site.
OnlyHeader(idx, fill) ==
    [j \in Sites |-> IF j = idx THEN headers[idx]
                     ELSE AflppCmpLogHeader_new_with_raw_value(257 * fill)]

\* C30: on the AflppCmpLogMap the decode of an instruction site depends
\* only on the site's header and on the low limbs v0, v1 of the addressed
\* slot: a map that agrees on those and differs in the high limbs, the
\* padding, the other slots and the other sites decodes to the same value.
C30_WireDecodeDependsOnLowLimbs ==
    (/\ fmt = Wire
     /\ Returned("values_of")
     /\ kind_of(last.idx) = CMPLOG_KIND_INS
     /\ last.execution < CMPLOG_MAP_H) =>
        \A fill \in {0, 255} :
            AflppCmpLogMap_values_of(OnlyHeader(last.idx, fill),
                                     OnlyLowLimbs(last.idx, last.execution, fill),
                                     last.idx, last.execution) = last.ret

\* A 64-bit record whose high limbs and padding are set was decoded to its
\* low limbs.
C30_Witness ==
    /\ fmt = Wire
    /\ Returned("values_of")
    /\ kind_of(last.idx) = CMPLOG_KIND_INS
    /\ shape_of(last.idx) = 7
    /\ last.execution < CMPLOG_MAP_H
    /\ AflppCmpLogOperands_at(vals[last.idx], last.execution).v0_128 = U64_B
    /\ AflppCmpLogOperands_at(vals[last.idx], last.execution).unused = U64_B
    /\ last.ret = CmpValuesInt("U64", U64_A, U64_B, FALSE)

\* C25: deserializing an AflppCmpLogMap from a byte sequence whose length
\* is not the size of the map (a shorter one in particular) produces no map
\* and is reported as a deserialization error.
C25_WrongLengthIsAnError ==
    (Returned("deserialize") /\ serialized.len # SizeOf_AflppCmpLogMap) =>
        last.ret.tag = "Err"

(***************************************************************************)
(* AflppCmpLogOperands held by value: constructors, getters and setters.   *)
(* A u128 is kept as 16 little-endian base-256 digits.                     *)
(***************************************************************************)
\* x as u64, for a u128 x
AsU64(x) == SubSeq(x, 1, 8)

\* (x >> 64) as u64, for a u128 x
Shr64AsU64(x) == SubSeq(x, 9, 16)

AflppCmpLogOperands_new(v0, v1) ==
    [v0 |-> v0, v0_128 |-> U64_0, v0_256_0 |-> U64_0, v0_256_1 |-> U64_0,
     v1 |-> v1, v1_128 |-> U64_0, v1_256_0 |-> U64_0, v1_256_1 |-> U64_0,
     unused |-> U64_0]

\* Mutant: the high limbs are taken without the shift.
AflppCmpLogOperands_new_128bit_M(v0, v1) ==
    [v0 |-> AsU64(v0), v0_128 |-> AsU64(v0), v0_256_0 |-> U64_0, v0_256_1 |-> U64_0,
     v1 |-> AsU64(v1), v1_128 |-> AsU64(v1), v1_256_0 |-> U64_0, v1_256_1 |-> U64_0,
     unused |-> U64_0]

AflppCmpLogOperands_new_128bit(v0, v1) ==
    [v0 |-> AsU64(v0), v0_128 |-> Shr64AsU64(v0), v0_256_0 |-> U64_0, v0_256_1 |-> U64_0,
     v1 |-> AsU64(v1), v1_128 |-> Shr64AsU64(v1), v1_256_0 |-> U64_0, v1_256_1 |-> U64_0,
     unused |-> U64_0]

AflppCmpLogOperands_v0(self) == self.v0

AflppCmpLogOperands_v1(self) == self.v1

AflppCmpLogOperands_v0_128(self) == self.v0_128

AflppCmpLogOperands_v1_128(self) == self.v1_128

AflppCmpLogOperands_set_v0(self, v0) == [self EXCEPT !.v0 = v0, !.v0_128 = U64_0]

AflppCmpLogOperands_set_v1(self, v1) == [self EXCEPT !.v1 = v1, !.v1_128 = U64_0]

AflppCmpLogOperands_set_v0_128(self, v0) ==
    [self EXCEPT !.v0_128 = Shr64AsU64(v0), !.v0 = AsU64(v0)]

AflppCmpLogOperands_set_v1_128(self, v1) ==
    [self EXCEPT !.v1_128 = Shr64AsU64(v1), !.v1 = AsU64(v1)]

U64Inputs == {U64_0, U64_A, U64_B}

\* low limb followed by high limb
U128Inputs == {lo \o hi : lo \in U64Inputs, hi \in U64Inputs}

\* #[derive(Default)]
InitOps ==
    /\ fmt = Wire
    /\ headers = AflppCmpLogMap_boxed_headers
    /\ vals = ZeroVals
    /\ nwrites = 0
    /\ last = FnCall("AflppCmpLogOperands::default", <<>>, Ok)
    /\ operands = AflppCmpLogOperands_new(U64_0, U64_0)
    /\ fnops = None
    /\ RunIdle /\ SerdeIdle /\ RtIdle

OpsNew ==
    /\ Running
    /\ \E v0 \in U64Inputs, v1 \in U64Inputs :
         /\ operands' = AflppCmpLogOperands_new(v0, v1)
         /\ last' = FnCall("AflppCmpLogOperands::new", <<v0, v1>>, Ok)
    /\ UNCHANGED <<fmt, headers, vals, nwrites, fnops, runVars, serdeVars, rtVars>>

OpsNew128bit ==
    /\ Running
    /\ \E v0 \in U128Inputs, v1 \in U128Inputs :
         /\ operands' = AflppCmpLogOperands_new_128bit(v0, v1)
         /\ last' = FnCall("new_128bit", <<v0, v1>>, Ok)
    /\ UNCHANGED <<fmt, headers, vals, nwrites, fnops, runVars, serdeVars, rtVars>>

OpsSetV0 ==
    /\ Running
    /\ \E v0 \in U64Inputs :
         /\ operands' = AflppCmpLogOperands_set_v0(operands, v0)
         /\ last' = FnCall("set_v0", <<v0>>, Unit)
    /\ UNCHANGED <<fmt, headers, vals, nwrites, fnops, runVars, serdeVars, rtVars>>

OpsSetV1 ==
    /\ Running
    /\ \E v1 \in U64Inputs :
         /\ operands' = AflppCmpLogOperands_set_v1(operands, v1)
         /\ last' = FnCall("set_v1", <<v1>>, Unit)
    /\ UNCHANGED <<fmt, headers, vals, nwrites, fnops, runVars, serdeVars, rtVars>>

OpsSetV0_128 ==
    /\ Running
    /\ \E v0 \in U128Inputs :
         /\ operands' = AflppCmpLogOperands_set_v0_128(operands, v0)
         /\ last' = FnCall("set_v0_128", <<v0>>, Unit)
    /\ UNCHANGED <<fmt, headers, vals, nwrites, fnops, runVars, serdeVars, rtVars>>

OpsSetV1_128 ==
    /\ Running
    /\ \E v1 \in U128Inputs :
         /\ operands' = AflppCmpLogOperands_set_v1_128(operands, v1)
         /\ last' = FnCall("set_v1_128", <<v1>>, Unit)
    /\ UNCHANGED <<fmt, headers, vals, nwrites, fnops, runVars, serdeVars, rtVars>>

NextOps ==
    \/ OpsNew
    \/ OpsNew128bit
    \/ OpsSetV0
    \/ OpsSetV1
    \/ OpsSetV0_128
    \/ OpsSetV1_128

SpecOps == InitOps /\ [][NextOps]_vars

\* The u128 with low limb lo and high limb hi: lo + 2^64 * hi.
U128Of(lo, hi) == lo \o hi

Side0(o) == U128Of(AflppCmpLogOperands_v0(o), AflppCmpLogOperands_v0_128(o))

Side1(o) == U128Of(AflppCmpLogOperands_v1(o), AflppCmpLogOperands_v1_128(o))

\* C26: for AflppCmpLogOperands, after new_128bit(a, b), set_v0_128(a) or
\* set_v1_128(b) the getters give back the 128-bit value: v0() + 2^64 *
\* v0_128() = a and v1() + 2^64 * v1_128() = b; set_v0(x) / set_v1(x) store
\* x in the low limb, zero the high limb of that side and leave both limbs
\* of the other side unchanged.
C26_Operands128RoundTrip ==
    [][/\ last'.op = "new_128bit" =>
            /\ Side0(operands') = last'.args[1]
            /\ Side1(operands') = last'.args[2]
       /\ last'.op = "set_v0_128" =>
            /\ Side0(operands') = last'.args[1]
            /\ Side1(operands') = Side1(operands)
       /\ last'.op = "set_v1_128" =>
            /\ Side1(operands') = last'.args[1]
            /\ Side0(operands') = Side0(operands)
       /\ (last'.op = "set_v0" /\ operands # None) =>
            /\ AflppCmpLogOperands_v0(operands') = last'.args[1]
            /\ AflppCmpLogOperands_v0_128(operands') = U64_0
            /\ Side1(operands') = Side1(operands)
       /\ (last'.op = "set_v1" /\ operands # None) =>
            /\ AflppCmpLogOperands_v1(operands') = last'.args[1]
            /\ AflppCmpLogOperands_v1_128(operands') = U64_0
            /\ Side0(operands') = Side0(operands)]_vars

\* A 128-bit pair with distinct limbs was stored, then set_v0 overwrote the
\* left side and left the right side in place.
C26_Witness ==
    /\ last.op = "set_v0"
    /\ operands # None
    /\ AflppCmpLogOperands_v0(operands) = U64_A
    /\ AflppCmpLogOperands_v0_128(operands) = U64_0
    /\ Side1(operands) = U64_B \o U64_A

====
